---- MODULE Spec2Model ----
(***************************************************************************)
(* Model of the eNB RRC layer (srsenb/src/stack/rrc/rrc.cc): the user      *)
(* table, the command queue drained by tti_clock, the per-user RRC state    *)
(* machine with its activity timer, security algorithm selection and the   *)
(* SR/CQI PUCCH resource grids, together with the parts of MAC, PDCP, RLC   *)
(* and S1AP the RRC handlers call into.                                     *)
(*                                                                         *)
(* Every handler is an operator from a "world" record (the program state   *)
(* plus the list of calls made so far by the running handler) to a world   *)
(* record; an action runs one public entry point to completion.            *)
(***************************************************************************)
EXTENDS Integers, Sequences, FiniteSets, TLC

(***************************************************************************)
(* Bounds of the model                                                     *)
(***************************************************************************)
\* commands that may wait in rx_pdu_queue
MaxQueue == 2
\* of these, commands other than user removals
MaxPending == 1
\* SR and CQI resources handed out where exhaustion of the grids is not the subject
MaxAlloc == 2
\* ticks counted on an activity timer since its last (re)start
MaxElapsed == 1
\* radio-link failures indicated per user
MaxRlf == 2
\* leading bits of a security capability bitstring that are modelled
CapLen == 3
\* length of a configured algorithm preference list
MaxPrefLen == 2
\* users counted in a PUCCH grid when its functions are called one by one
MaxFill == 9
\* subheaders of an uplink MAC PDU
MaxSubh == 2
\* uplink PDUs waiting in a MAC ue
MaxPdus == 1
\* elements of the list handed to generate_pdu
MaxDlElems == 2
\* timing-advance commands waiting in a MAC ue
MaxTaCmds == 3

(***************************************************************************)
(* Program constants and configuration                                     *)
(***************************************************************************)
SRSLTE_MRNTI == 65533
FIRST_RNTI == 70
RNTIS == {FIRST_RNTI, FIRST_RNTI + 1, SRSLTE_MRNTI}
UE_RNTIS == RNTIS \ {SRSLTE_MRNTI}

CIPHERING_ALGORITHM_ID_EEA0 == 0
CIPHERING_ALGORITHM_ID_128_EEA1 == 1
CIPHERING_ALGORITHM_ID_128_EEA2 == 2
CIPHERING_ALGORITHM_ID_128_EEA3 == 3
INTEGRITY_ALGORITHM_ID_EIA0 == 0
INTEGRITY_ALGORITHM_ID_128_EIA1 == 1
INTEGRITY_ALGORITHM_ID_128_EIA2 == 2
INTEGRITY_ALGORITHM_ID_128_EIA3 == 3
ALGO_IDS == 0 .. 3

\* sib2.rr_cfg_common.rach_cfg_common.max_harq_msg3_tx
max_harq_msg3_tx == 4
\* cfg.inactivity_timeout_ms
inactivity_timeout_ms == 10000
\* the "1" of deadline_s for UE_RESPONSE_RX_TIMEOUT
UE_RESPONSE_DEADLINE_S == 1

\* cfg.cell.cp (extended) and pucch_cfg_common.delta_pucch_shift, ncs_an
CP_ISNORM == FALSE
delta_pucch_shift == 3
ncs_an == 0
\* cfg.sr_cfg / cfg.cqi_cfg
sr_cfg == [period |-> 20, nof_prb |-> 1, nof_subframes |-> 1, sf_mapping |-> <<0>>]
cqi_cfg == [mode |-> "PERIODIC", period |-> 40, nof_prb |-> 1, nof_subframes |-> 1,
            sf_mapping |-> <<0>>]
\* what rrc::init leaves in cfg and sib2 for the PUCCH
CellCfg ==
  [cp_isnorm |-> CP_ISNORM, delta_pucch_shift |-> delta_pucch_shift, ncs_an |-> ncs_an,
   sr_cfg |-> sr_cfg, cqi_cfg |-> cqi_cfg]
\* cfg.eea_preference_list / cfg.eia_preference_list
eea_preference_list == <<CIPHERING_ALGORITHM_ID_EEA0, CIPHERING_ALGORITHM_ID_128_EEA2>>
eia_preference_list == <<INTEGRITY_ALGORITHM_ID_128_EIA2, INTEGRITY_ALGORITHM_ID_EIA0>>
\* QCIs with cfg.qci_cfg[qci].configured
QCI_CONFIGURED == {7, 9}

(***************************************************************************)
(* State                                                                   *)
(***************************************************************************)
VARIABLES
  users,          \* rrc::users: rnti -> rrc::ue, NoUe when absent
  rx_pdu_queue,   \* rrc::rx_pdu_queue
  sr_sched,       \* rrc::sr_sched.nof_users[prb][sf]
  cqi_sched,      \* rrc::cqi_sched.nof_users[prb][sf]
  pdcp_users,     \* pdcp::users: rnti -> PDCP entity, NoUe when absent
  rlc_bearers,    \* bearers RLC holds per rnti
  mac_ue,         \* MAC ue_db: key rnti -> ue::rnti member, 0 when absent
  sched_ue_cfg,   \* the ue_cfg_t the MAC scheduler holds per rnti, NoSchedCfg when none
  s1ap_ctx,       \* RNTIs for which s1ap->user_exists() holds
  mme_connected,  \* s1ap->is_mme_connected()
  last,           \* the entry point that ran last and its arguments
  out,            \* the calls to other layers made by that entry point
  sec_in,         \* inputs given to select_security_algorithms
  sec_out,        \* what select_security_algorithms returned
  user_mutex,     \* rrc::user_mutex: "free" or the entry point holding it
  tti_p,          \* the command rrc::tti_clock has popped and not yet handled
  cfg,            \* rrc::cfg and sib2: the cell's PUCCH configuration
  conres_id,      \* ue::conres_id of the MAC ue stored under each key
  pending_ta_commands, \* ue::pending_ta_commands of the MAC ue stored under each key
  pdus,           \* ue::pdus: the uplink PDUs pushed to each MAC ue and not yet processed
  src_var,        \* a var_meas_cfg_t: the measurement configuration a user has
  target_var,     \* a var_meas_cfg_t: the measurement configuration being built
  result_meascfg, \* the meas_cfg_s compute_diff_meas_cfg filled in this step, if it ran
  softbuffer_tx,  \* softbuffer_tx.size() of the MAC ue stored under each key
  pending_paging, \* rrc::pending_paging: the UE ids waiting to be paged
  byte_buf_paging, \* rrc::byte_buf_paging: the records of the paging message packed last
  paging_mutex,   \* rrc::paging_mutex: "free" or the entry point holding it
  pag,            \* the entry points of the paging that are under way, and their locals
  rx_used_buffers, \* ue::rx_used_buffers of the MAC ue stored under each key: tti -> buffer
  pdu_pool,       \* the buffers of ue::pdus of the MAC ue stored under each key: "free" in
                  \* the pool, "used" once handed out, "pushed" while queued for processing
  phy_held        \* the buffers request_buffer returned that the caller has not given back

rrc_vars == <<users, rx_pdu_queue, sr_sched, cqi_sched, pdcp_users, rlc_bearers, mac_ue,
              sched_ue_cfg,
              s1ap_ctx, mme_connected, last, out, user_mutex, tti_p>>
sec_vars == <<sec_in, sec_out>>
mac_vars == <<conres_id, pending_ta_commands, pdus, softbuffer_tx>>
meas_vars == <<src_var, target_var, result_meascfg>>
paging_vars == <<pending_paging, byte_buf_paging, paging_mutex, pag>>
buf_vars == <<rx_used_buffers, pdu_pool, phy_held>>
vars == <<rrc_vars, sec_vars, cfg, mac_vars, meas_vars, paging_vars, buf_vars>>

\* var_meas_cfg_t{}: no measurement object, no report configuration, no meas-id
var_meas_cfg_t == [meas_obj_list |-> << >>, report_cfg_list |-> << >>, meas_id_list |-> << >>]
\* no delta was computed
NoMeasCfg == [computed |-> FALSE]

NoUe == [present |-> FALSE]
\* the tti slots of rx_used_buffers and the buffers of the pool of ue::pdus looked at
NofTtiSlots == 2
PoolSize == 3
TTI_SLOTS == 0 .. NofTtiSlots - 1
BUFFERS == 1 .. PoolSize
\* no entry point of the paging is under way
NoPag == [is_paging_opportunity |-> "none", tti |-> 0, records |-> << >>,
          add_paging_id |-> 0, read_pdu_pcch |-> FALSE]
\* the paging state after rrc::init, and a MAC ue as its constructor leaves it:
\* the softbuffers of the PCell, no received PDU in any tti slot
InitPagingAndBuffers ==
  /\ pending_paging = {}
  /\ byte_buf_paging = << >>
  /\ paging_mutex = "free"
  /\ pag = NoPag
  /\ softbuffer_tx = [r \in RNTIS |-> 1]
  /\ rx_used_buffers = [r \in RNTIS |-> [t \in TTI_SLOTS |-> 0]]
  /\ pdu_pool = [r \in RNTIS |-> [b \in BUFFERS |-> "free"]]
  /\ phy_held = {}
\* the MAC scheduler was given no configuration of the user
NoSchedCfg == [sr_configured |-> FALSE, I_sr |-> 0, n_pucch_sr |-> 0, pmi_idx |-> 0,
               n_pucch |-> 0]
NullPdu == [type |-> "null", arg |-> 0]
\* no command popped
NoCmd == [rnti |-> 0, lcid |-> "none", pdu |-> NullPdu]

\* a call into another layer: which call, for which rnti, on which bearer, the
\* message or cause it carries, its transaction id and one numeric argument
Ev(kind, rnti, lcid, msg, tid, arg) ==
  [kind |-> kind, rnti |-> rnti, lcid |-> lcid, msg |-> msg, tid |-> tid, arg |-> arg]

\* the value a function returned, among the calls of the step
Ret(name, r, ret) == Ev("return", r, "", name, 0, ret)

Op(name, rnti, lcid, pdu) == [op |-> name, rnti |-> rnti, lcid |-> lcid, pdu |-> pdu]

(***************************************************************************)
(* Bitstrings of the S1AP security capabilities                            *)
(***************************************************************************)
\* a bitstring is a sequence of 0/1, first bit first; get(idx) counts from the
\* last bit, so that v.get(v.length() - k) reads the k-th bit
BitStrings == [1 .. CapLen -> {0, 1}]
\* the bits counted from the other end
bitstring_get_from_front(v, idx) == IF idx \in 0 .. (Len(v) - 1) THEN v[idx + 1] = 1 ELSE FALSE
bitstring_get(v, idx) == IF idx \in 0 .. (Len(v) - 1) THEN v[Len(v) - idx] = 1 ELSE FALSE
NoBits == [i \in 1 .. CapLen |-> 0]
AllBits == [i \in 1 .. CapLen |-> 1]
NoCaps == [encryption_algorithms |-> NoBits, integrity_protection_algorithms |-> NoBits]

(***************************************************************************)
(* The world a handler runs in                                             *)
(***************************************************************************)
World ==
  [users |-> users, queue |-> rx_pdu_queue, sr_sched |-> sr_sched, cqi_sched |-> cqi_sched,
   pdcp |-> pdcp_users, rlc |-> rlc_bearers, mac |-> mac_ue, sched |-> sched_ue_cfg,
   s1ap |-> s1ap_ctx, out |-> <<>>]

\* the state a handler leaves, the mutex, the popped command and the members of
\* the MAC ues aside
CommitWorld(w, op) ==
  /\ users' = w.users
  /\ rx_pdu_queue' = w.queue
  /\ sr_sched' = w.sr_sched
  /\ cqi_sched' = w.cqi_sched
  /\ pdcp_users' = w.pdcp
  /\ rlc_bearers' = w.rlc
  /\ mac_ue' = w.mac
  /\ sched_ue_cfg' = w.sched
  /\ s1ap_ctx' = w.s1ap
  /\ out' = w.out
  /\ last' = op
  /\ UNCHANGED <<mme_connected, sec_vars, cfg, meas_vars, paging_vars, buf_vars>>

\* the state a handler of the RRC leaves, the mutex and the popped command aside
CommitState(w, op) == CommitWorld(w, op) /\ UNCHANGED mac_vars

Commit(w, op) == CommitState(w, op) /\ UNCHANGED <<user_mutex, tti_p>>

Call(w, e) == [w EXCEPT !.out = Append(@, e)]

\* a push that puts the command ahead of the ones waiting
queue_push_front(w, rnti, lcid, pdu) ==
  [w EXCEPT !.queue = <<[rnti |-> rnti, lcid |-> lcid, pdu |-> pdu]>> \o @]

\* rx_pdu_queue.push
queue_push(w, rnti, lcid, pdu) ==
  [w EXCEPT !.queue = Append(@, [rnti |-> rnti, lcid |-> lcid, pdu |-> pdu])]

\* rrc::rem_user_thread
rem_user_thread(w, rnti) == queue_push(w, rnti, "LCID_REM_USER", NullPdu)

(***************************************************************************)
(* Activity timer                                                          *)
(***************************************************************************)
timer_set(t, d) == [t EXCEPT !.duration = d]
timer_run(t) == [t EXCEPT !.running = TRUE, !.elapsed = 0]

\* a restart that leaves a running timer alone
set_activity_unless_running(w, r) ==
  IF w.users[r].activity_timer.running THEN w
  ELSE [w EXCEPT !.users[r].activity_timer = timer_run(@)]

\* rrc::ue::set_activity
set_activity(w, r) == [w EXCEPT !.users[r].activity_timer = timer_run(@)]

\* the deadline computed by rrc::ue::set_activity_timeout, in ms
Deadline(type) ==
  CASE type = "MSG3_RX_TIMEOUT" -> 0 * 1000 + (max_harq_msg3_tx + 1) * 16
    [] type = "UE_RESPONSE_RX_TIMEOUT" -> UE_RESPONSE_DEADLINE_S * 1000 + 0
    [] type = "UE_INACTIVITY_TIMEOUT" ->
         (inactivity_timeout_ms \div 1000) * 1000 + (inactivity_timeout_ms % 1000)

\* rrc::ue::set_activity_timeout
set_activity_timeout(w, r, type) ==
  set_activity([w EXCEPT !.users[r].activity_timer = timer_set(@, Deadline(type))], r)

\* no reconfiguration with mobility-control-info was sent to the user
NoHoRecfg == [present |-> FALSE]

\* rrc::ue::ue
new_ue(r) ==
  [present |-> TRUE,
   state |-> "IDLE",
   activity_timer |->
     timer_run(timer_set([duration |-> 0, running |-> FALSE, elapsed |-> 0],
                         Deadline("MSG3_RX_TIMEOUT"))),
   rlf_cnt |-> 0,
   transaction_id |-> 0,
   integ_algo |-> INTEGRITY_ALGORITHM_ID_EIA0,
   cipher_algo |-> CIPHERING_ALGORITHM_ID_EEA0,
   security_capabilities |-> NoCaps,
   erabs |-> << >>,
   sr_allocated |-> FALSE, sr_sched_prb_idx |-> 0, sr_sched_sf_idx |-> 0,
   sr_I |-> 0, sr_N_pucch |-> 0,
   cqi_allocated |-> FALSE, cqi_sched_prb_idx |-> 0, cqi_sched_sf_idx |-> 0,
   cqi_idx |-> 0, cqi_pucch |-> 0,
   ho_st |-> "idle_st", ho_recfg |-> NoHoRecfg]

is_connected(u) == u.state = "REGISTERED"
\* every user taken for idle
is_idle_in_any_state(u) == u.state \in {"IDLE", "WAIT_FOR_CON_SETUP_COMPLETE",
                                        "WAIT_FOR_CON_RECONF_COMPLETE", "REGISTERED",
                                        "RELEASE_REQUEST"}
is_idle(u) == u.state = "IDLE"

\* (transaction_id++) % 4: the value sent. The member is an unsigned integer
\* whose width is a multiple of 4, so keeping it modulo 4 keeps every value sent.
tid_sent(u) == u.transaction_id % 4
\* a counter that sending does not move
tid_kept(u) == u.transaction_id % 4
tid_next(u) == (u.transaction_id + 1) % 4

(***************************************************************************)
(* PUCCH resources: scheduling request and periodic CQI                    *)
(***************************************************************************)
\* max_users of sr_allocate and cqi_allocate under a cell configuration
MaxUsers(c) == (12 * (IF c.cp_isnorm THEN 3 ELSE 2)) \div c.delta_pucch_shift
max_users == MaxUsers(CellCfg)

GridSlots(c) == (0 .. (c.nof_prb - 1)) \X (0 .. (c.nof_subframes - 1))
EmptyGrid(c) == [s \in GridSlots(c) |-> 0]

\* a search that ends on the last slot of the grid
LastSlot(grid, c) == <<c.nof_prb - 1, c.nof_subframes - 1>>

\* the double loop with "<": the first slot, prb-major, holding the minimum
LeastLoaded(grid, c) ==
  IF GridSlots(c) = {} THEN <<0, 0>>
  ELSE CHOOSE s \in GridSlots(c) :
         \A t \in GridSlots(c) :
           \/ grid[s] < grid[t]
           \/ /\ grid[s] = grid[t]
              /\ (s[1] < t[1] \/ (s[1] = t[1] /\ s[2] <= t[2]))

SR_PERIODS == {5, 10, 20, 40, 80}
CQI_PERIODS == {2, 5, 10, 20, 40, 80, 160, 32, 64, 128}

\* rrc::ue::sr_allocate in a cell configured as c
sr_allocate_in(c, w, r, period) ==
  LET s == LeastLoaded(w.sr_sched, c.sr_cfg)
      n == w.sr_sched[s]
      sf == c.sr_cfg.sf_mapping[s[2] + 1]
      I_sr == (period - 5 + sf) % 256
      N_pucch_sr == (s[1] * MaxUsers(c) + n + c.ncs_an) % 65536
  IN IF n > MaxUsers(c) THEN [ret |-> -1, w |-> w]
     ELSE IF period \notin SR_PERIODS THEN [ret |-> -1, w |-> w]
     ELSE IF ~(sf < period) THEN [ret |-> -1, w |-> w]
     ELSE [ret |-> 0,
           w |-> [w EXCEPT !.sr_sched[s] = n + 1,
                           !.users[r].sr_sched_prb_idx = s[1],
                           !.users[r].sr_sched_sf_idx = s[2],
                           !.users[r].sr_allocated = TRUE,
                           !.users[r].sr_I = I_sr,
                           !.users[r].sr_N_pucch = N_pucch_sr]]

\* rrc::ue::sr_allocate
sr_allocate(w, r, period) == sr_allocate_in(CellCfg, w, r, period)

\* the pmi index bands of rrc::ue::cqi_allocate
cqi_pmi_idx(period, sf) ==
  IF period \notin {32, 64, 128}
  THEN (IF period > 2 THEN period - 3 + sf ELSE sf)
  ELSE (IF period = 32 THEN 318 + sf ELSE IF period = 64 THEN 350 + sf ELSE 414 + sf)

\* rrc::ue::cqi_allocate in a cell configured as c
cqi_allocate_in(c, w, r, period) ==
  LET s == LeastLoaded(w.cqi_sched, c.cqi_cfg)
      n == w.cqi_sched[s]
      sf == c.cqi_cfg.sf_mapping[s[2] + 1]
      n_pucch == (s[1] * MaxUsers(c) + n + c.ncs_an) % 65536
  IN IF n > MaxUsers(c) THEN [ret |-> -1, w |-> w]
     ELSE IF period \notin CQI_PERIODS THEN [ret |-> -1, w |-> w]
     ELSE IF ~(sf < period) THEN [ret |-> -1, w |-> w]
     ELSE [ret |-> 0,
           w |-> [w EXCEPT !.cqi_sched[s] = n + 1,
                           !.users[r].cqi_sched_prb_idx = s[1],
                           !.users[r].cqi_sched_sf_idx = s[2],
                           !.users[r].cqi_allocated = TRUE,
                           !.users[r].cqi_idx = cqi_pmi_idx(period, sf) % 65536,
                           !.users[r].cqi_pucch = n_pucch]]

\* rrc::ue::cqi_allocate
cqi_allocate(w, r, period) == cqi_allocate_in(CellCfg, w, r, period)

\* rrc::ue::sr_free
sr_free(w, r) ==
  LET u == w.users[r]
      s == <<u.sr_sched_prb_idx, u.sr_sched_sf_idx>>
  IN IF u.sr_allocated /\ w.sr_sched[s] > 0
     THEN [w EXCEPT !.sr_sched[s] = @ - 1]
     ELSE w

\* rrc::ue::cqi_free
cqi_free(w, r) ==
  LET u == w.users[r]
      s == <<u.cqi_sched_prb_idx, u.cqi_sched_sf_idx>>
  IN IF u.cqi_allocated /\ w.cqi_sched[s] > 0
     THEN [w EXCEPT !.cqi_sched[s] = @ - 1]
     ELSE w

(***************************************************************************)
(* Security algorithm selection                                            *)
(***************************************************************************)
RECURSIVE select_cipher(_, _, _)
\* the first loop of rrc::ue::select_security_algorithms
select_cipher(list, v, cur) ==
  IF list = << >> THEN [found |-> FALSE, algo |-> cur]
  ELSE LET item == Head(list)
       IN IF item = CIPHERING_ALGORITHM_ID_EEA0
          THEN [found |-> TRUE, algo |-> CIPHERING_ALGORITHM_ID_EEA0]
          ELSE IF item \in {CIPHERING_ALGORITHM_ID_128_EEA1, CIPHERING_ALGORITHM_ID_128_EEA2,
                            CIPHERING_ALGORITHM_ID_128_EEA3}
                  /\ bitstring_get(v, Len(v) - item)
          THEN [found |-> TRUE, algo |-> item]
          ELSE select_cipher(Tail(list), v, cur)

RECURSIVE select_integ(_, _, _)
\* the second loop of rrc::ue::select_security_algorithms
select_integ(list, v, cur) ==
  IF list = << >> THEN [found |-> FALSE, algo |-> cur]
  ELSE LET item == Head(list)
       IN IF item \in {INTEGRITY_ALGORITHM_ID_128_EIA1, INTEGRITY_ALGORITHM_ID_128_EIA2,
                       INTEGRITY_ALGORITHM_ID_128_EIA3}
             /\ bitstring_get(v, Len(v) - item)
          THEN [found |-> TRUE, algo |-> item]
          ELSE select_integ(Tail(list), v, cur)

\* rrc::ue::select_security_algorithms, on the preference lists, the user's
\* capabilities and the algorithms the user holds so far
select_security_algorithms(eea_list, eia_list, caps, cipher0, integ0) ==
  LET c == select_cipher(eea_list, caps.encryption_algorithms, cipher0)
      i == select_integ(eia_list, caps.integrity_protection_algorithms, integ0)
  IN [ret |-> (i.found /\ c.found), cipher_algo |-> c.algo, integ_algo |-> i.algo]

(***************************************************************************)
(* Downlink messages                                                       *)
(***************************************************************************)
\* rrc::ue::send_dl_ccch
send_dl_ccch(w, r, msg, tid) == Call(w, Ev("rlc_write_sdu", r, 0, msg, tid, 0))

\* rrc::ue::send_dl_dcch: SRB2 once registered and RLC has the bearer
send_dl_dcch(w, r, msg, tid, arg) ==
  LET lcid == IF 2 \in w.rlc[r] /\ w.users[r].state = "REGISTERED" THEN 2 ELSE 1
  IN Call(w, Ev("pdcp_write_sdu", r, lcid, msg, tid, arg))

\* rrc::ue::send_connection_reest_rej
send_connection_reest_rej(w, r) == send_dl_ccch(w, r, "rrc_conn_reest_reject", 0)

\* rrc::ue::send_connection_reject
send_connection_reject(w, r) == send_dl_ccch(w, r, "rrc_conn_reject", 0)

\* the entry users[rnti] of pdcp::users that operator[] inserts for a key the map
\* does not hold: a value-initialised user_interface, its pdcp pointer null
NullPdcpUser == [present |-> TRUE, pdcp |-> "NULL", bearers |-> {}, sec_cfg |-> << >>,
                 integrity |-> {}, encryption |-> {}]

\* users[rnti].pdcp points to an entity
HasPdcpEntity(w, r) == w.pdcp[r].present /\ w.pdcp[r].pdcp # "NULL"

\* users[rnti] of pdcp::users: std::map::operator[] inserts the key if absent
pdcp_users_at(w, r) == [w EXCEPT !.pdcp[r] = IF @.present THEN @ ELSE NullPdcpUser]

\* pdcp::add_bearer
pdcp_add_bearer(w, r, lcid) ==
  IF HasPdcpEntity(w, r) THEN [w EXCEPT !.pdcp[r].bearers = @ \cup {lcid}] ELSE w

\* pdcp::config_security
pdcp_config_security(w, r, lcid, cipher, integ) ==
  IF HasPdcpEntity(w, r)
  THEN [w EXCEPT !.pdcp[r].sec_cfg =
          [l \in DOMAIN @ \cup {lcid} |->
             IF l = lcid THEN [cipher_algo |-> cipher, integ_algo |-> integ] ELSE @[l]]]
  ELSE w

\* pdcp::enable_integrity: users[rnti] without a check of users.count(rnti)
pdcp_enable_integrity(w, r, lcid) ==
  LET w1 == pdcp_users_at(w, r)
  IN IF HasPdcpEntity(w1, r) THEN [w1 EXCEPT !.pdcp[r].integrity = @ \cup {lcid}] ELSE w1

\* pdcp::enable_encryption: users[rnti] without a check of users.count(rnti)
pdcp_enable_encryption(w, r, lcid) ==
  LET w1 == pdcp_users_at(w, r)
  IN IF HasPdcpEntity(w1, r) THEN [w1 EXCEPT !.pdcp[r].encryption = @ \cup {lcid}] ELSE w1

\* mac->phy_config_enabled as the handlers call it
mac_phy_config_enabled(w, r, enabled) ==
  Call(w, Ev("mac_phy_config_enabled", r, 0, "", 0, IF enabled THEN 1 ELSE 0))

\* rrc::ue::send_connection_setup(is_setup = true)
send_connection_setup(w, r) ==
  LET tid == tid_sent(w.users[r])
      w1 == [w EXCEPT !.users[r].transaction_id = tid_next(w.users[r])]
      sr == sr_allocate(w1, r, sr_cfg.period)
      cqi == IF cqi_cfg.mode = "APERIODIC" THEN [ret |-> 0, w |-> sr.w]
             ELSE cqi_allocate(sr.w, r, cqi_cfg.period)
      u == cqi.w.users[r]
      sched_cfg == [sr_configured |-> TRUE, I_sr |-> u.sr_I, n_pucch_sr |-> u.sr_N_pucch,
                    pmi_idx |-> IF cqi_cfg.mode = "APERIODIC" THEN 0 ELSE u.cqi_idx,
                    n_pucch |-> u.cqi_pucch]
      w2 == [Call(cqi.w, Ev("mac_ue_cfg", r, 0, "sr_configured", u.sr_I, u.sr_N_pucch))
               EXCEPT !.sched[r] = sched_cfg]
      w3 == [w2 EXCEPT !.rlc[r] = @ \cup {1}]
      w4 == mac_phy_config_enabled(pdcp_add_bearer(w3, r, 1), r, FALSE)
  IN IF sr.ret # 0 THEN sr.w
     ELSE IF cqi.ret # 0 THEN cqi.w
     ELSE send_dl_ccch(w4, r, "rrc_conn_setup", tid)

\* rrc::ue::send_connection_release
send_connection_release(w, r) ==
  send_dl_dcch([w EXCEPT !.users[r].transaction_id = tid_next(w.users[r])],
               r, "rrc_conn_release", tid_sent(w.users[r]), 0)

\* rrc::ue::get_drbid_config: erabs[erab_id] creates the entry it reads
get_drbid_config(w, r, drb_id) ==
  LET erab_id == drb_id + 2 + 2
      e == w.users[r].erabs
      e1 == IF erab_id \in DOMAIN e THEN e
            ELSE [i \in DOMAIN e \cup {erab_id} |-> IF i = erab_id THEN 0 ELSE e[i]]
  IN [ret |-> IF e1[erab_id] \in QCI_CONFIGURED THEN 0 ELSE -1,
      w |-> [w EXCEPT !.users[r].erabs = e1]]

\* rrc::ue::send_connection_reconf_upd
send_connection_reconf_upd(w, r) ==
  LET w1 == [w EXCEPT !.users[r].transaction_id = tid_next(w.users[r])]
      w2 == send_dl_dcch(w1, r, "rrc_conn_recfg_upd", tid_sent(w.users[r]), 0)
  IN [w2 EXCEPT !.users[r].state = "WAIT_FOR_CON_RECONF_COMPLETE"]

\* rrc::ue::send_connection_reconf
send_connection_reconf(w, r) ==
  LET tid == tid_sent(w.users[r])
      w1 == mac_phy_config_enabled(
              [w EXCEPT !.users[r].transaction_id = tid_next(w.users[r])], r, FALSE)
      drb == get_drbid_config(w1, r, 1)
      u == drb.w.users[r]
      w2 == Call(drb.w, Ev("mac_bearer_ue_cfg", r, 2, "", 0, 0))
      w3 == Call(w2, Ev("mac_bearer_ue_cfg", r, 3, "", 0, 0))
      w4 == [w3 EXCEPT !.rlc[r] = @ \cup {2}]
      w5 == pdcp_enable_encryption(
              pdcp_enable_integrity(
                pdcp_config_security(pdcp_add_bearer(w4, r, 2), r, 2,
                                     u.cipher_algo, u.integ_algo), r, 2), r, 2)
      w6 == [w5 EXCEPT !.rlc[r] = @ \cup {3}]
      w7 == pdcp_enable_encryption(
              pdcp_enable_integrity(
                pdcp_config_security(pdcp_add_bearer(w6, r, 3), r, 3,
                                     u.cipher_algo, u.integ_algo), r, 3), r, 3)
      w8 == send_dl_dcch(w7, r, "rrc_conn_recfg", tid, 0)
  IN IF drb.ret # 0 THEN drb.w
     ELSE [w8 EXCEPT !.users[r].state = "WAIT_FOR_CON_RECONF_COMPLETE"]

\* rrc::ue::send_security_mode_command
send_security_mode_command(w, r) ==
  send_dl_dcch([w EXCEPT !.users[r].transaction_id = tid_next(w.users[r])],
               r, "security_mode_cmd", tid_sent(w.users[r]), w.users[r].integ_algo)

(***************************************************************************)
(* Per-user handlers                                                       *)
(***************************************************************************)
\* the Msg3 timeout kept after the connection request
con_req_timeout_type_msg3 == "MSG3_RX_TIMEOUT"

\* the timeout armed at the end of rrc::ue::handle_rrc_con_req
con_req_timeout_type == "UE_RESPONSE_RX_TIMEOUT"

\* the state left as it was when no connection setup went out
handle_rrc_con_req_state_on_setup(w, r) ==
  LET w1 == IF ~mme_connected THEN send_connection_reject(w, r) ELSE w
      w2 == send_connection_setup(w1, r)
      w3 == IF \E i \in DOMAIN w2.out : w2.out[i].msg = "rrc_conn_setup"
            THEN [w2 EXCEPT !.users[r].state = "WAIT_FOR_CON_SETUP_COMPLETE"]
            ELSE w2
  IN set_activity_timeout(w3, r, con_req_timeout_type)

\* rrc::ue::handle_rrc_con_req
handle_rrc_con_req(w, r) ==
  LET w1 == IF ~mme_connected THEN send_connection_reject(w, r) ELSE w
      w2 == send_connection_setup(w1, r)
      w3 == [w2 EXCEPT !.users[r].state = "WAIT_FOR_CON_SETUP_COMPLETE"]
  IN set_activity_timeout(w3, r, con_req_timeout_type)

\* rrc::ue::handle_rrc_con_setup_complete
handle_rrc_con_setup_complete(w, r) ==
  LET w1 == Call(mac_phy_config_enabled(w, r, TRUE),
                 Ev("s1ap_initial_ue", r, 0, "", 0, 0))
  IN [w1 EXCEPT !.s1ap = @ \cup {r},
                !.users[r].state = "WAIT_FOR_CON_RECONF_COMPLETE"]

\* rrc::ue::handle_rrc_reconf_complete
handle_rrc_reconf_complete(w, r) == mac_phy_config_enabled(w, r, TRUE)

\* rrc::ue::handle_security_mode_complete
handle_security_mode_complete(w, r) == pdcp_enable_encryption(w, r, 1)

\* rrc::ue::handle_security_mode_failure: logs only
handle_security_mode_failure(w, r) == w

\* rrc::ue::notify_s1ap_ue_ctxt_setup_complete
notify_s1ap_ue_ctxt_setup_complete(w, r) ==
  Call(w, Ev("s1ap_ue_ctxt_setup_complete", r, 0, "", 0, Cardinality(DOMAIN w.users[r].erabs)))

(***************************************************************************)
(* Mobility: measurement reports and handover                              *)
(***************************************************************************)
\* rrc_cfg_t::enb_id: the identity of this station, the upper bits of its ECIs
ENB_ID == 411

\* cfg.cell_list[0].meas_cfg.meas_cells: a neighbour that is a cell of this
\* station (ECI 0x19B02) and a neighbour of another station (ECI 0x19C04)
NEIGHBOUR_CELLS == {[pci |-> 2, eci |-> 105218], [pci |-> 4, eci |-> 105476]}

\* every PCI taken for the first neighbour
find_target_cell_any_pci(pci) == {CHOOSE c \in NEIGHBOUR_CELLS : c.pci = 2}

\* rrc_mobility::handle_ue_meas_report: the neighbour cells of the reported PCI
find_target_cell(pci) == {c \in NEIGHBOUR_CELLS : c.pci = pci}

\* no user ever taken to be in a handover
ho_in_progress_never(u) == FALSE

\* rrc_mobility: a handover of the user is in progress
ho_in_progress(u) == u.ho_st # "idle_st"

\* rrc_mobility: the handover to a cell of another station starts with the
\* preparation container handed to the signaling layer
start_s1_ho(w, r, target) ==
  [Call(w, Ev("s1ap_send_ho_required", r, 0, "", 0, target.eci))
     EXCEPT !.users[r].ho_st = "s1_source_ho_st"]

\* rrc_mobility: the handover to a cell of this station starts with the
\* reconfiguration that carries mobility-control-info and the PUCCH resources
start_intraenb_ho(w, r, target) ==
  LET u == w.users[r]
      w1 == [w EXCEPT !.users[r].transaction_id = tid_next(u)]
      w2 == send_dl_dcch(w1, r, "rrc_conn_recfg_mob_ctrl_info", tid_sent(u), target.pci)
  IN [w2 EXCEPT !.users[r].ho_st = "intraenb_ho_st",
                !.users[r].ho_recfg =
                  [present |-> TRUE, target_pci |-> target.pci, new_ue_id |-> r,
                   sr_cfg_idx |-> u.sr_I, sr_pucch_res_idx |-> u.sr_N_pucch,
                   cqi_pmi_cfg_idx |-> u.cqi_idx, cqi_pucch_res_idx |-> u.cqi_pucch]]

\* rrc_mobility::handle_ue_meas_report
handle_ue_meas_report(w, r, pci) ==
  LET cells == find_target_cell(pci)
  IN IF cells = {} THEN w
     ELSE IF ho_in_progress(w.users[r]) THEN w
     ELSE LET target == CHOOSE c \in cells : TRUE
          IN IF target.eci \div 256 = ENB_ID
             THEN start_intraenb_ho(w, r, target)
             ELSE start_s1_ho(w, r, target)

\* rrc_mobility::handle_ho_preparation_complete: the answer of the signaling
\* layer to the preparation of a handover
handle_ho_preparation_complete(w, r, is_success) ==
  LET u == w.users[r]
      w1 == [w EXCEPT !.users[r].transaction_id = tid_next(u)]
      w2 == send_dl_dcch(w1, r, "rrc_conn_recfg_mob_ctrl_info", tid_sent(u), 0)
      w3 == Call(w2, Ev("s1ap_send_enb_status_transfer_proc", r, 0, "", 0, 0))
  IN IF u.ho_st # "s1_source_ho_st" THEN w
     ELSE IF ~is_success THEN [w EXCEPT !.users[r].ho_st = "idle_st"]
     ELSE [w3 EXCEPT !.users[r].ho_st = "status_transfer_st"]

\* rrc::ue::parse_ul_dcch
ue_parse_ul_dcch(w, r, lcid, pdu) ==
  LET w0 == set_activity(w, r)
      w1 == [w0 EXCEPT !.users[r].transaction_id = 0]
  IN CASE pdu.type = "undecodable" -> w0
       [] pdu.type = "rrc_conn_setup_complete" -> handle_rrc_con_setup_complete(w1, r)
       [] pdu.type = "ul_info_transfer" -> Call(w1, Ev("s1ap_write_pdu", r, 0, "", 0, 0))
       [] pdu.type = "rrc_conn_recfg_complete" ->
            set_activity_timeout(
              [handle_rrc_reconf_complete(w1, r) EXCEPT !.users[r].state = "REGISTERED"],
              r, "UE_INACTIVITY_TIMEOUT")
       [] pdu.type = "security_mode_complete" ->
            LET w2 == send_connection_reconf(
                        notify_s1ap_ue_ctxt_setup_complete(
                          handle_security_mode_complete(w1, r), r), r)
            IN [w2 EXCEPT !.users[r].state = "WAIT_FOR_CON_RECONF_COMPLETE"]
       [] pdu.type = "security_mode_fail" -> handle_security_mode_failure(w1, r)
       [] pdu.type = "ue_cap_info" ->
            IF pdu.arg = 1
            THEN [send_connection_reconf(w1, r)
                    EXCEPT !.users[r].state = "WAIT_FOR_CON_RECONF_COMPLETE"]
            ELSE [send_connection_reject(w1, r) EXCEPT !.users[r].state = "IDLE"]
       [] pdu.type = "meas_report" -> handle_ue_meas_report(w1, r, pdu.arg)
       [] OTHER -> w1

\* rrc::parse_ul_dcch
parse_ul_dcch(w, rnti, lcid, pdu) ==
  IF pdu # NullPdu /\ w.users[rnti].present THEN ue_parse_ul_dcch(w, rnti, lcid, pdu) ELSE w

\* rrc::parse_ul_ccch
parse_ul_ccch(w, rnti, pdu) ==
  CASE pdu = NullPdu -> w
    [] pdu.type = "undecodable" -> w
    [] pdu.type = "rrc_conn_request" ->
         IF w.users[rnti].present THEN handle_rrc_con_req(w, rnti) ELSE w
    [] pdu.type = "rrc_conn_reest_request" ->
         IF is_idle(w.users[rnti])
         THEN LET old_rnti == pdu.arg
                  w1 == send_connection_reest_rej(w, rnti)
                  w2 == IF w.users[old_rnti].present
                        THEN Call(w1, Ev("s1ap_user_release", old_rnti, 0,
                                         "release_due_to_eutran_generated_reason", 0, 0))
                        ELSE w1
              IN rem_user_thread(w2, rnti)
         ELSE w
    [] OTHER -> w

\* a failure that is not counted
ue_rl_failure_not_counted(u) == u

\* rrc::ue::rl_failure
ue_rl_failure(u) == [u EXCEPT !.rlf_cnt = @ + 1]

\* every failure reported, not only the first
process_rl_failure_every_time(w, rnti) ==
  IF w.users[rnti].present
  THEN LET w1 == [w EXCEPT !.users[rnti] = ue_rl_failure(@)]
       IN IF rnti \in w1.s1ap
          THEN Call(w1, Ev("s1ap_user_release", rnti, 0, "radio_conn_with_ue_lost", 0, 0))
          ELSE rem_user_thread(w1, rnti)
  ELSE w

\* rrc::process_rl_failure
process_rl_failure(w, rnti) ==
  IF w.users[rnti].present
  THEN LET w1 == [w EXCEPT !.users[rnti] = ue_rl_failure(@)]
           n_rfl == w1.users[rnti].rlf_cnt
       IN IF n_rfl = 1
          THEN IF rnti \in w1.s1ap
               THEN Call(w1, Ev("s1ap_user_release", rnti, 0, "radio_conn_with_ue_lost", 0, 0))
               ELSE rem_user_thread(w1, rnti)
          ELSE w1
  ELSE w

\* a release that is sent to the user and queues no removal
process_release_complete_release_only(w, rnti) ==
  IF w.users[rnti].present /\ ~is_idle(w.users[rnti])
  THEN send_connection_release(Call(w, Ev("rlc_clear_buffer", rnti, 0, "", 0, 0)), rnti)
  ELSE w

\* rrc::process_release_complete
process_release_complete(w, rnti) ==
  IF w.users[rnti].present
  THEN LET w1 == IF ~is_idle(w.users[rnti])
                 THEN send_connection_release(Call(w, Ev("rlc_clear_buffer", rnti, 0, "", 0, 0)),
                                              rnti)
                 ELSE w
       IN rem_user_thread(w1, rnti)
  ELSE w

\* rrc::rem_user
rem_user(w, rnti) ==
  IF w.users[rnti].present
  THEN LET w1 == Call(w, Ev("mac_ue_rem", rnti, 0, "", 0, 0))
           w2 == Call(w1, Ev("gtpu_rem_user", rnti, 0, "", 0, 0))
           w3 == [w2 EXCEPT !.mac[rnti] = 0, !.sched[rnti] = NoSchedCfg, !.rlc[rnti] = {},
                            !.pdcp[rnti] = NoUe]
           w4 == cqi_free(sr_free(w3, rnti), rnti)
       IN [w4 EXCEPT !.users[rnti] = NoUe]
  ELSE w

\* the state assigned only where the signaling layer is asked for the release
activity_timer_expired_state_with_s1ap(w, r) ==
  IF r \in w.s1ap
  THEN [Call(w, Ev("s1ap_user_release", r, 0, "user_inactivity", 0, 0))
          EXCEPT !.users[r].state = "RELEASE_REQUEST"]
  ELSE IF r # SRSLTE_MRNTI THEN rem_user_thread(w, r) ELSE w

\* rrc::ue::activity_timer_expired
activity_timer_expired(w, r) ==
  LET w1 == IF r \in w.s1ap
            THEN Call(w, Ev("s1ap_user_release", r, 0, "user_inactivity", 0, 0))
            ELSE IF r # SRSLTE_MRNTI THEN rem_user_thread(w, r) ELSE w
  IN [w1 EXCEPT !.users[r].state = "RELEASE_REQUEST"]

\* the key setup switching encryption on together with integrity
set_security_key_with_encryption(w, r) ==
  LET u == w.users[r]
      sel == select_security_algorithms(eea_preference_list, eia_preference_list,
                                        u.security_capabilities, u.cipher_algo, u.integ_algo)
      w1 == [w EXCEPT !.users[r].cipher_algo = sel.cipher_algo,
                      !.users[r].integ_algo = sel.integ_algo]
      w2 == pdcp_config_security(w1, r, 1, sel.cipher_algo, sel.integ_algo)
  IN pdcp_enable_encryption(pdcp_enable_integrity(w2, r, 1), r, 1)

\* rrc::ue::set_security_key: the return value of the selection is not read
set_security_key(w, r) ==
  LET u == w.users[r]
      sel == select_security_algorithms(eea_preference_list, eia_preference_list,
                                        u.security_capabilities, u.cipher_algo, u.integ_algo)
      w1 == [w EXCEPT !.users[r].cipher_algo = sel.cipher_algo,
                      !.users[r].integ_algo = sel.integ_algo]
      w2 == pdcp_config_security(w1, r, 1, sel.cipher_algo, sel.integ_algo)
  IN pdcp_enable_integrity(w2, r, 1)

RECURSIVE setup_erabs(_, _, _)
\* rrc::ue::setup_erabs (context setup list) with rrc::ue::setup_erab
setup_erabs(w, r, e) ==
  IF e = << >> THEN w
  ELSE LET erab == Head(e)
           old == w.users[r].erabs
           w1 == [w EXCEPT !.users[r].erabs =
                    [i \in DOMAIN old \cup {erab.id} |-> IF i = erab.id THEN erab.qci ELSE old[i]]]
           w2 == Call(w1, Ev("gtpu_add_bearer", r, erab.id - 2, "", 0, 0))
       IN setup_erabs(w2, r, Tail(e))

(***************************************************************************)
(* Inputs                                                                  *)
(***************************************************************************)
Pdu(type, arg) == [type |-> type, arg |-> arg]

ConReq == Pdu("rrc_conn_request", 0)

\* what a user may send on SRB0 besides a connection request
CCCH_PDUS ==
  {Pdu("undecodable", 0)} \cup {Pdu("rrc_conn_reest_request", o) : o \in UE_RNTIS}

\* what a user may send on SRB1 and SRB2
DCCH_PDUS ==
  {Pdu(t, 0) : t \in {"rrc_conn_setup_complete", "ul_info_transfer", "rrc_conn_recfg_complete",
                      "security_mode_complete", "security_mode_fail", "undecodable"}}
    \cup {Pdu("ue_cap_info", ok) : ok \in {0, 1}}

\* capabilities the core network may report in a context setup or modification
CAPS_INPUTS ==
  {[encryption_algorithms |-> b, integrity_protection_algorithms |-> b] : b \in {NoBits, AllBits}}

\* E-RAB lists of a context setup: none, or the default bearer with a configured QCI
ERAB_INPUTS == {<< >>, <<[id |-> 5, qci |-> 9]>>}

NewPdcp == [present |-> TRUE, pdcp |-> "obj", bearers |-> {}, sec_cfg |-> << >>,
            integrity |-> {}, encryption |-> {}]

\* room in rx_pdu_queue within the bounds
Fits(w) == Len(w.queue) <= MaxQueue

EnvRoom ==
  Cardinality({i \in DOMAIN rx_pdu_queue : rx_pdu_queue[i].lcid # "LCID_REM_USER"}) < MaxPending

\* PDCP hands up only what arrives on a bearer it holds for the user
SrbUp(rnti, lcid) == pdcp_users[rnti].present /\ lcid \in pdcp_users[rnti].bearers

RECURSIVE GridSum(_, _)
GridSum(grid, slots) ==
  IF slots = {} THEN 0
  ELSE LET s == CHOOSE s \in slots : TRUE IN grid[s] + GridSum(grid, slots \ {s})

MayAlloc == GridSum(sr_sched, DOMAIN sr_sched) < MaxAlloc

\* what is in a grid
GridFill(grid) == GridSum(grid, DOMAIN grid)

(***************************************************************************)
(* Entry points                                                            *)
(***************************************************************************)
\* rrc::add_user, called by MAC when it has created its own ue for the rnti
add_user(rnti) ==
  LET w0 == [World EXCEPT !.mac[rnti] = IF @ = 0 THEN rnti ELSE @]
      w1 == IF ~w0.users[rnti].present
            THEN [w0 EXCEPT !.users[rnti] = new_ue(rnti),
                            !.rlc[rnti] = {},
                            !.pdcp[rnti] = IF @.present THEN @ ELSE NewPdcp]
            ELSE w0
      w2 == IF rnti = SRSLTE_MRNTI
            THEN Call(pdcp_add_bearer(
                        [Call(w1, Ev("mac_ue_cfg", SRSLTE_MRNTI, 0, "", 0, 0))
                           EXCEPT !.rlc[rnti] = @ \cup {1}], SRSLTE_MRNTI, 1),
                      Ev("gtpu_add_bearer", SRSLTE_MRNTI, 1, "", 0, 0))
            ELSE w1
  IN Commit(w2, Op("add_user", rnti, "", NullPdu))

\* rrc::upd_user
upd_user(w, new_rnti, old_rnti) ==
  LET w1 == rem_user_thread(w, new_rnti)
  IN IF w1.users[old_rnti].present
     THEN IF is_connected(w1.users[old_rnti])
          THEN send_connection_reconf_upd(w1, old_rnti)
          ELSE send_connection_release(w1, old_rnti)
     ELSE w1

\* ue::process_ce, case CRNTI, on the MAC ue stored under key
process_ce_crnti(key, old_rnti) ==
  /\ mac_ue[key] # 0
  /\ LET w == IF mac_ue[old_rnti] # 0
              THEN [upd_user(World, mac_ue[key], old_rnti) EXCEPT !.mac[key] = old_rnti]
              ELSE World
     IN Fits(w) /\ Commit(w, Op("process_ce_crnti", key, "", Pdu("crnti", old_rnti)))

(***************************************************************************)
(* MAC ue: the uplink PDU                                                  *)
(***************************************************************************)
\* srslte::sch_subh::MAC_CE_CONTRES_LEN
MAC_CE_CONTRES_LEN == 6
\* sched_interface::MAX_LC_GROUP
MAX_LC_GROUP == 4

\* a parsed subheader: an SDU of a logical channel with its payload size,
\* whether the payload is all zeros and the identity its first six bytes
\* spell, or a control element with its argument
UlSdu(lcid, size, zero, cri) ==
  [sdu |-> TRUE, lcid |-> lcid, size |-> size, zero |-> zero, cri |-> cri,
   ce |-> "", arg |-> 0]
UlCe(type, arg) ==
  [sdu |-> FALSE, lcid |-> 0, size |-> 0, zero |-> FALSE, cri |-> 0,
   ce |-> type, arg |-> arg]

\* ue::process_pdu, the body of the first loop for one SDU subheader
process_sdu(m, sh) ==
  LET rnti == m.w.mac[m.key]
      route_pdu == ~(sh.lcid = 0 /\ sh.zero)
      w1 == IF route_pdu
            THEN Call(m.w, Ev("rlc_write_pdu", rnti, sh.lcid, "", 0, sh.size))
            ELSE m.w
      w2 == IF sh.size > 64 THEN queue_push(w1, rnti, "LCID_ACT_USER", NullPdu) ELSE w1
      more == sh.size > m.most_data
  IN [m EXCEPT !.w = w2,
               !.most_data = IF more THEN sh.size ELSE @,
               !.lcid_most_data = IF more THEN sh.lcid ELSE @,
               !.conres_id = IF sh.lcid = 0 /\ route_pdu /\ sh.size >= MAC_CE_CONTRES_LEN
                             THEN sh.cri ELSE @]

\* the calls of sched->ul_bsr for the groups idx .. MAX_LC_GROUP - 1
RECURSIVE ul_bsr_all(_, _, _)
ul_bsr_all(w, rnti, idx) ==
  IF idx >= MAX_LC_GROUP THEN w
  ELSE ul_bsr_all(Call(w, Ev("sched_ul_bsr", rnti, idx, "", 0, 0)), rnti, idx + 1)

\* ue::process_ce; bsr_received |= its result
process_ce(m, sh) ==
  LET rnti == m.w.mac[m.key]
  IN CASE sh.ce = "PHR_REPORT" ->
            [m EXCEPT !.w = Call(@, Ev("sched_ul_phr", rnti, 0, "", 0, sh.arg))]
       [] sh.ce = "CRNTI" ->
            IF m.w.mac[sh.arg] # 0
            THEN [m EXCEPT !.w = [upd_user(m.w, rnti, sh.arg) EXCEPT !.mac[m.key] = sh.arg]]
            ELSE m
       [] sh.ce \in {"TRUNC_BSR", "SHORT_BSR"} ->
            IF sh.arg = -1 THEN m
            ELSE [m EXCEPT !.w = Call(@, Ev("sched_ul_bsr", rnti, sh.arg, "", 0, 0)),
                           !.bsr_received = TRUE]
       [] sh.ce = "LONG_BSR" ->
            [m EXCEPT !.w = ul_bsr_all(@, rnti, 0), !.bsr_received = TRUE]
       [] OTHER -> m

\* the first loop of ue::process_pdu, over the SDUs, and the second, over the
\* control elements
RECURSIVE process_sdus(_, _)
process_sdus(m, pdu) ==
  IF pdu = << >> THEN m
  ELSE process_sdus(IF Head(pdu).sdu THEN process_sdu(m, Head(pdu)) ELSE m, Tail(pdu))
RECURSIVE process_ces(_, _)
process_ces(m, pdu) ==
  IF pdu = << >> THEN m
  ELSE process_ces(IF ~Head(pdu).sdu THEN process_ce(m, Head(pdu)) ELSE m, Tail(pdu))

\* a BSR added only for more than 64 bytes of data
bsr_not_received_over_64(m) ==
  IF ~m.bsr_received /\ m.lcid_most_data > 2 /\ m.most_data > 64
  THEN [m EXCEPT !.w = Call(@, Ev("sched_ul_buffer_add", m.w.mac[m.key],
                                   m.lcid_most_data, "", 0, 256))]
  ELSE m

\* the BSR added when none was received: > 2 is a data bearer
bsr_not_received(m) ==
  IF ~m.bsr_received /\ m.lcid_most_data > 2
  THEN [m EXCEPT !.w = Call(@, Ev("sched_ul_buffer_add", m.w.mac[m.key],
                                   m.lcid_most_data, "", 0, 256))]
  ELSE m

\* ue::process_pdu on the MAC ue of m
process_pdu(m, pdu) ==
  bsr_not_received(
    process_ces(process_sdus([m EXCEPT !.most_data = -99, !.lcid_most_data = 0,
                                       !.bsr_received = FALSE], pdu), pdu))

\* ue::push_pdu on the MAC ue stored under key
push_pdu(key, pdu) ==
  /\ mac_ue[key] # 0
  /\ Len(pdus[key]) < MaxPdus
  /\ pdus' = [pdus EXCEPT ![key] = Append(@, pdu)]
  /\ CommitWorld(World, Op("push_pdu", key, "", NullPdu))
  /\ UNCHANGED <<conres_id, pending_ta_commands, softbuffer_tx, user_mutex, tti_p>>

\* the PDUs of the queue processed one after the other
RECURSIVE process_all(_, _)
process_all(m, q) == IF q = << >> THEN m ELSE process_all(process_pdu(m, Head(q)), Tail(q))

\* ue::process_pdus on the MAC ue stored under key: every queued PDU is processed
process_pdus(key) ==
  /\ mac_ue[key] # 0
  /\ pdus[key] # << >>
  /\ LET m0 == [w |-> World, key |-> key, most_data |-> -99, lcid_most_data |-> 0,
                bsr_received |-> FALSE, conres_id |-> conres_id[key]]
         m == process_all(m0, pdus[key])
     IN /\ Fits(m.w)
        /\ CommitWorld(m.w, Op("process_pdus", key, "", NullPdu))
        /\ conres_id' = [conres_id EXCEPT ![key] = m.conres_id]
        /\ pdus' = [pdus EXCEPT ![key] = << >>]
        /\ UNCHANGED <<pending_ta_commands, softbuffer_tx, user_mutex, tti_p>>

(***************************************************************************)
(* MAC ue: the downlink PDU                                                *)
(***************************************************************************)
\* srslte::ul_sch_lcid::PHR_REPORT and the srslte::dl_sch_lcid of the control elements
PHR_REPORT == 26
SCELL_ACTIVATION == 27
CON_RES_ID == 28
TA_CMD == 29
\* the subheaders mac_msg_dl is constructed for
MAC_MSG_DL_SUBH == 20

\* srslte::sch_pdu, as far as the assembler of the specification describes it:
\* the subheaders in the order of their creation and the bytes left of the grant
sch_init_tx(grant_size) == [subh |-> << >>, rem_len |-> grant_size]
sch_new_subh_ok(p) == Len(p.subh) < MAC_MSG_DL_SUBH
sch_new_subh(p) == [p EXCEPT !.subh = Append(@, [type |-> "unset", lcid |-> 0, n |-> 0])]
sch_del_subh(p) == [p EXCEPT !.subh = SubSeq(@, 1, Len(@) - 1)]
\* the last subheader becomes a control element of that many payload bytes, if
\* it fits with its one-byte subheader
sch_set_ce(p, lcid, bytes, value) ==
  IF p.rem_len >= bytes + 1
  THEN [ok |-> TRUE,
        p |-> [p EXCEPT !.subh[Len(p.subh)] = [type |-> "ce", lcid |-> lcid, n |-> value],
                        !.rem_len = @ - (bytes + 1)]]
  ELSE [ok |-> FALSE, p |-> p]
\* the room for an SDU behind its two-byte subheader
sch_get_sdu_space(p) == p.rem_len - 2
\* the last subheader becomes an SDU of the bytes RLC hands over, at most the
\* bytes asked for; 0 when RLC has nothing or nothing fits
sch_set_sdu(p, lcid, requested, rlc_bytes) ==
  LET fit == IF requested < sch_get_sdu_space(p) THEN requested ELSE sch_get_sdu_space(p)
      n == IF fit <= 0 THEN 0 ELSE IF rlc_bytes < fit THEN rlc_bytes ELSE fit
  IN [n |-> n,
      p |-> IF n > 0
            THEN [p EXCEPT !.subh[Len(p.subh)] = [type |-> "sdu", lcid |-> lcid, n |-> n],
                           !.rem_len = @ - (n + 2)]
            ELSE p]
\* the subheaders in the order of their creation, those never set left out
sch_in_creation_order(p) == SelectSeq(p.subh, LAMBDA h : h.type # "unset")
\* srslte::sch_pdu::write_packet: the control elements are emitted before the
\* SDUs, and padding fills the rest of the grant
sch_write_packet(p) ==
  SelectSeq(p.subh, LAMBDA h : h.type = "ce") \o SelectSeq(p.subh, LAMBDA h : h.type = "sdu")
    \o (IF p.rem_len > 0 THEN <<[type |-> "padding", lcid |-> 31, n |-> p.rem_len]>> ELSE << >>)

\* srslte::block_queue::try_push on the FIFO of the pending control elements,
\* which holds whatever is pushed
try_push(q, value) == [ok |-> TRUE, q |-> Append(q, value)]

\* every command pushed through try_push, in their order
RECURSIVE try_push_all(_, _)
try_push_all(q, cmds) ==
  IF cmds = << >> THEN q ELSE try_push_all(try_push(q, Head(cmds)).q, Tail(cmds))

\* a set_ta that sends what is left beyond one command's range in no second command
ta_cmds_one_command(ta) ==
  <<(IF ta > 32 THEN 32 ELSE IF ta < -31 THEN -31 ELSE ta) + 31>>

\* ue::set_ta: the commands pushed for a timing advance
RECURSIVE ta_cmds(_)
ta_cmds(ta) ==
  LET ta_value == IF ta > 32 THEN 32 ELSE IF ta < -31 THEN -31 ELSE ta
  IN <<ta_value + 31>> \o (IF ta_value <= -31 \/ ta_value >= 32 THEN ta_cmds(ta - ta_value)
                            ELSE << >>)

\* ue::set_ta on the MAC ue stored under key
set_ta(key, ta) ==
  /\ mac_ue[key] # 0
  /\ Len(pending_ta_commands[key]) + Len(ta_cmds(ta)) <= MaxTaCmds
  /\ pending_ta_commands' = [pending_ta_commands EXCEPT ![key] = try_push_all(@, ta_cmds(ta))]
  /\ CommitWorld(Call(World, Ret("set_ta", mac_ue[key], Len(ta_cmds(ta)))),
                 Op("set_ta", key, "", Pdu("ta", ta)))
  /\ UNCHANGED <<conres_id, pdus, softbuffer_tx, user_mutex, tti_p>>

\* ue::allocate_sdu: g is the PDU, the pending commands and the calls so far
RECURSIVE allocate_sdu_loop(_, _, _, _)
allocate_sdu_loop(g, lcid, sdu_len, rlc_bytes) ==
  IF sdu_len < (IF lcid = 0 THEN 1 ELSE 2) \/ ~sch_new_subh_ok(g.p) THEN g
  ELSE LET s == sch_set_sdu(sch_new_subh(g.p), lcid, sdu_len, rlc_bytes)
           g1 == [g EXCEPT !.calls = Append(@, Ev("rlc_read_pdu", g.rnti, lcid, "", 0, sdu_len))]
       IN IF s.n > 0
          THEN allocate_sdu_loop([g1 EXCEPT !.p = s.p], lcid, sdu_len - s.n, rlc_bytes)
          ELSE [g1 EXCEPT !.p = sch_del_subh(s.p)]
allocate_sdu(g, lcid, total_sdu_len, rlc_bytes) ==
  LET sdu_space == sch_get_sdu_space(g.p)
  IN IF sdu_space > 0
     THEN allocate_sdu_loop(g, lcid, IF total_sdu_len < sdu_space THEN total_sdu_len
                                     ELSE sdu_space, rlc_bytes)
     ELSE g

\* the carriers of a cell group: the size of the mask that
\* sched::get_scell_activation_mask returns
SRSLTE_MAX_CARRIERS == 5
\* the most softbuffer sets a MAC ue is followed up to: those of the PCell and of
\* two SCell-activation control elements
MaxCcBuffers == 9

\* ue::allocate_cc_buffers on the number of softbuffer sets the ue holds: num_cc
\* sets are appended, the new number is returned
allocate_cc_buffers(nof_sets, num_cc) == nof_sets + num_cc

\* ue::allocate_ce
allocate_ce(g, lcid) ==
  CASE lcid = TA_CMD ->
         IF sch_new_subh_ok(g.p)
         THEN LET ta_cmd == IF g.ta = << >> THEN 31 ELSE Head(g.ta)
              IN [g EXCEPT !.ta = IF @ = << >> THEN @ ELSE Tail(@),
                           !.p = sch_set_ce(sch_new_subh(g.p), TA_CMD, 1, ta_cmd).p]
         ELSE g
    [] lcid = CON_RES_ID ->
         IF sch_new_subh_ok(g.p)
         THEN [g EXCEPT !.p = sch_set_ce(sch_new_subh(g.p), CON_RES_ID, MAC_CE_CONTRES_LEN,
                                         g.conres_id).p]
         ELSE g
    [] lcid = SCELL_ACTIVATION ->
         IF sch_new_subh_ok(g.p)
         THEN LET s == sch_set_ce(sch_new_subh(g.p), SCELL_ACTIVATION, 1, 0)
              IN IF s.ok
                 THEN [g EXCEPT !.p = s.p,
                                !.calls = Append(@, Ev("phy_set_activation_deactivation_scell",
                                                       g.rnti, 0, "", 0, 0)),
                                !.softbuffer_tx =
                                   allocate_cc_buffers(@, SRSLTE_MAX_CARRIERS - 1)]
                 ELSE [g EXCEPT !.p = s.p]
         ELSE g
    [] OTHER -> g

\* the loop of ue::generate_pdu over the elements of the list
RECURSIVE allocate_elems(_, _, _)
allocate_elems(g, list, rlc_bytes) ==
  IF list = << >> THEN g
  ELSE allocate_elems(IF Head(list).lcid <= PHR_REPORT
                      THEN allocate_sdu(g, Head(list).lcid, Head(list).nbytes, rlc_bytes)
                      ELSE allocate_ce(g, Head(list).lcid),
                      Tail(list), rlc_bytes)

\* the PDU returned as the subheaders were created
dl_pdu_as_allocated(g) == sch_in_creation_order(g.p)

\* ret = mac_msg_dl.write_packet(log_h)
dl_pdu_written(g) == sch_write_packet(g.p)

\* ue::generate_pdu on the MAC ue stored under key; valid: rlc is set and the
\* indices are in range; rlc_bytes: what RLC has for a read. The ue is followed
\* while it holds at most MaxCcBuffers softbuffer sets
generate_pdu(key, list, grant_size, rlc_bytes, valid) ==
  /\ mac_ue[key] # 0
  /\ LET g0 == [p |-> sch_init_tx(grant_size), ta |-> pending_ta_commands[key],
                conres_id |-> conres_id[key], rnti |-> mac_ue[key], calls |-> << >>,
                softbuffer_tx |-> softbuffer_tx[key]]
         g == IF valid THEN allocate_elems(g0, list, rlc_bytes) ELSE g0
         ret == IF valid THEN dl_pdu_written(g) ELSE << >>
         w == [World EXCEPT !.out = Append(g.calls, Ret("generate_pdu", mac_ue[key], ret))]
     IN /\ CommitWorld(w, Op("generate_pdu", key, "",
                             Pdu("dl_sched_pdu", [list |-> list, grant_size |-> grant_size,
                                                  rlc_bytes |-> rlc_bytes, valid |-> valid])))
        /\ g.softbuffer_tx <= MaxCcBuffers
        /\ pending_ta_commands' = [pending_ta_commands EXCEPT ![key] = g.ta]
        /\ softbuffer_tx' = [softbuffer_tx EXCEPT ![key] = g.softbuffer_tx]
        /\ UNCHANGED <<conres_id, pdus, user_mutex, tti_p>>

\* rrc::write_pdu
write_pdu(rnti, lcid, pdu) ==
  /\ users[rnti].present
  /\ EnvRoom
  /\ LET w == queue_push(World, rnti, lcid, pdu)
     IN Fits(w) /\ Commit(w, Op("write_pdu", rnti, "", NullPdu))

\* rrc::ho_preparation_complete: users.at(rnti) throws for an unknown user
ho_preparation_complete(rnti, is_success) ==
  /\ users[rnti].present
  /\ Commit(handle_ho_preparation_complete(World, rnti, is_success),
            Op("ho_preparation_complete", rnti, "",
               Pdu("ho_preparation_complete", IF is_success THEN 1 ELSE 0)))

\* rrc::rl_failure
rl_failure(rnti) ==
  /\ users[rnti].present
  /\ EnvRoom
  /\ users[rnti].rlf_cnt
       + Cardinality({i \in DOMAIN rx_pdu_queue :
                        rx_pdu_queue[i].rnti = rnti /\ rx_pdu_queue[i].lcid = "LCID_RLF_USER"})
       < MaxRlf
  /\ LET w == queue_push(World, rnti, "LCID_RLF_USER", NullPdu)
     IN Fits(w) /\ Commit(w, Op("rl_failure", rnti, "", NullPdu))

\* rrc::set_activity_user
set_activity_user(rnti) ==
  /\ users[rnti].present
  /\ EnvRoom
  /\ LET w == queue_push(World, rnti, "LCID_ACT_USER", NullPdu)
     IN Fits(w) /\ Commit(w, Op("set_activity_user", rnti, "", NullPdu))

\* rrc::release_complete, called by S1AP when it drops its context
release_complete(rnti) ==
  /\ users[rnti].present
  /\ EnvRoom
  /\ LET w == [queue_push(World, rnti, "LCID_REL_USER", NullPdu) EXCEPT !.s1ap = @ \ {rnti}]
     IN Fits(w) /\ Commit(w, Op("release_complete", rnti, "", NullPdu))

\* rrc::setup_ue_ctxt
setup_ue_ctxt(rnti, caps, erabs) ==
  /\ users[rnti].present
  /\ LET w1 == [World EXCEPT !.users[rnti].security_capabilities = caps]
         w2 == send_security_mode_command(set_security_key(w1, rnti), rnti)
         w3 == setup_erabs(w2, rnti, erabs)
     IN Commit(w3, Op("setup_ue_ctxt", rnti, "", NullPdu))

\* rrc::modify_ue_ctxt: err for a request with an unsupported information element
modify_ue_ctxt(rnti, err, caps_present, caps, key_present) ==
  /\ users[rnti].present
  /\ LET w1 == IF caps_present
               THEN [World EXCEPT !.users[rnti].security_capabilities = caps]
               ELSE World
         w2 == IF key_present
               THEN send_security_mode_command(set_security_key(w1, rnti), rnti)
               ELSE w1
     IN Commit(IF err THEN World ELSE w2, Op("modify_ue_ctxt", rnti, "", NullPdu))

\* the switch of rrc::tti_clock on a popped command, after the user lookup
\* a tti_clock that keeps the command of an unknown user for a later call
handle_cmd_requeue(w, p) ==
  IF ~w.users[p.rnti].present THEN queue_push(w, p.rnti, p.lcid, p.pdu)
  ELSE CASE p.lcid = "RB_ID_SRB0" -> parse_ul_ccch(w, p.rnti, p.pdu)
         [] p.lcid \in {"RB_ID_SRB1", "RB_ID_SRB2"} -> parse_ul_dcch(w, p.rnti, p.lcid, p.pdu)
         [] p.lcid = "LCID_REM_USER" -> rem_user(w, p.rnti)
         [] p.lcid = "LCID_REL_USER" -> process_release_complete(w, p.rnti)
         [] p.lcid = "LCID_RLF_USER" -> process_rl_failure(w, p.rnti)
         [] p.lcid = "LCID_ACT_USER" -> set_activity(w, p.rnti)
         [] OTHER -> w

\* rrc::tti_clock after the pop: the user lookup, then the switch on the command
handle_cmd(w, p) ==
  IF ~w.users[p.rnti].present THEN w
  ELSE CASE p.lcid = "RB_ID_SRB0" -> parse_ul_ccch(w, p.rnti, p.pdu)
         [] p.lcid \in {"RB_ID_SRB1", "RB_ID_SRB2"} -> parse_ul_dcch(w, p.rnti, p.lcid, p.pdu)
         [] p.lcid = "LCID_REM_USER" -> rem_user(w, p.rnti)
         [] p.lcid = "LCID_REL_USER" -> process_release_complete(w, p.rnti)
         [] p.lcid = "LCID_RLF_USER" -> process_rl_failure(w, p.rnti)
         [] p.lcid = "LCID_ACT_USER" -> set_activity(w, p.rnti)
         [] OTHER -> w

\* rrc::tti_clock
tti_clock ==
  /\ rx_pdu_queue # << >>
  /\ LET p == Head(rx_pdu_queue)
         w == [World EXCEPT !.queue = Tail(@)]
     IN Commit(handle_cmd(w, p), Op("tti_clock", p.rnti, p.lcid, p.pdu))

\* rrc::tti_clock step by step: it takes user_mutex, ...
tti_clock_lock ==
  /\ user_mutex = "free"
  /\ user_mutex' = "tti_clock"
  /\ CommitState(World, Op("tti_clock_lock", 0, "", NullPdu))
  /\ UNCHANGED tti_p

\* ... pops one command, or finds none and gives the mutex back, ...
tti_clock_pop ==
  /\ user_mutex = "tti_clock"
  /\ tti_p = NoCmd
  /\ IF rx_pdu_queue = << >>
     THEN /\ user_mutex' = "free"
          /\ tti_p' = NoCmd
          /\ CommitState(World, Op("tti_clock_pop", 0, "", NullPdu))
     ELSE /\ user_mutex' = user_mutex
          /\ tti_p' = Head(rx_pdu_queue)
          /\ CommitState([World EXCEPT !.queue = Tail(@)], Op("tti_clock_pop", 0, "", NullPdu))

\* ... and handles the command and gives the mutex back
tti_clock_handle ==
  /\ user_mutex = "tti_clock"
  /\ tti_p # NoCmd
  /\ user_mutex' = "free"
  /\ tti_p' = NoCmd
  /\ CommitState(handle_cmd(World, tti_p), Op("tti_clock", tti_p.rnti, tti_p.lcid, tti_p.pdu))

\* rx_pdu_queue.push as rrc::write_pdu, rl_failure, set_activity_user,
\* release_complete and rem_user_thread do it: for any rnti, without the mutex
enqueue(name, rnti, lcid, pdu) ==
  LET w == queue_push(World, rnti, lcid, pdu)
  IN Fits(w) /\ Commit(w, Op(name, rnti, "", NullPdu))

\* one step of the timer handler on a running activity timer
timer_step(rnti) ==
  /\ users[rnti].present
  /\ users[rnti].activity_timer.running
  /\ users[rnti].activity_timer.elapsed < MaxElapsed
  /\ Commit([World EXCEPT !.users[rnti].activity_timer.elapsed = @ + 1],
            Op("timer_step", rnti, "", NullPdu))

\* the activity timer reaches its duration and runs its callback
timer_expiry(rnti) ==
  /\ users[rnti].present
  /\ users[rnti].activity_timer.running
  /\ users[rnti].activity_timer.elapsed >= 1
  /\ LET w == activity_timer_expired(
                [World EXCEPT !.users[rnti].activity_timer.running = FALSE], rnti)
     IN Fits(w) /\ Commit(w, Op("activity_timer_expired", rnti, "", NullPdu))

(***************************************************************************)
(* The complete RRC layer                                                  *)
(***************************************************************************)
NoSec == [used |-> FALSE]

Init ==
  /\ users = [r \in RNTIS |-> NoUe]
  /\ rx_pdu_queue = << >>
  /\ sr_sched = EmptyGrid(sr_cfg)
  /\ cqi_sched = EmptyGrid(cqi_cfg)
  /\ pdcp_users = [r \in RNTIS |-> NoUe]
  /\ rlc_bearers = [r \in RNTIS |-> {}]
  /\ mac_ue = [r \in RNTIS |-> 0]
  /\ s1ap_ctx = {}
  /\ mme_connected \in BOOLEAN
  /\ last = Op("init", 0, "", NullPdu)
  /\ user_mutex = "free"
  /\ tti_p = NoCmd
  /\ cfg = CellCfg
  /\ conres_id = [r \in RNTIS |-> 0]
  /\ pending_ta_commands = [r \in RNTIS |-> << >>]
  /\ pdus = [r \in RNTIS |-> << >>]
  /\ sched_ue_cfg = [r \in RNTIS |-> NoSchedCfg]
  /\ src_var = var_meas_cfg_t
  /\ target_var = var_meas_cfg_t
  /\ result_meascfg = NoMeasCfg
  /\ InitPagingAndBuffers
  /\ out = << >>
  /\ sec_in = NoSec
  /\ sec_out = NoSec

Next ==
  \/ \E r \in RNTIS : add_user(r)
  \/ \E k, o \in UE_RNTIS : process_ce_crnti(k, o)
  \/ \E r \in UE_RNTIS : MayAlloc /\ write_pdu(r, "RB_ID_SRB0", ConReq)
  \/ \E r \in UE_RNTIS, p \in CCCH_PDUS : write_pdu(r, "RB_ID_SRB0", p)
  \/ \E r \in UE_RNTIS, p \in DCCH_PDUS : SrbUp(r, 1) /\ write_pdu(r, "RB_ID_SRB1", p)
  \/ \E r \in UE_RNTIS, p \in DCCH_PDUS : SrbUp(r, 2) /\ write_pdu(r, "RB_ID_SRB2", p)
  \/ \E r \in UE_RNTIS : rl_failure(r)
  \/ \E r \in UE_RNTIS : set_activity_user(r)
  \/ \E r \in UE_RNTIS : release_complete(r)
  \/ \E r \in UE_RNTIS, c \in CAPS_INPUTS, e \in ERAB_INPUTS : setup_ue_ctxt(r, c, e)
  \/ \E r \in UE_RNTIS, err, cp, kp \in BOOLEAN, c \in CAPS_INPUTS :
       modify_ue_ctxt(r, err, cp, c, kp)
  \/ tti_clock
  \/ \E r \in RNTIS : timer_step(r)
  \/ \E r \in RNTIS : timer_expiry(r)

Spec == Init /\ [][Next]_vars

(***************************************************************************)
(* Scenarios: each takes its steps from Next, for the users and the inputs *)
(* of one procedure                                                        *)
(***************************************************************************)
ONE_UE == {FIRST_RNTI}

\* connection requests of two users, until the PUCCH grids are exhausted
NextConn ==
  \/ \E r \in UE_RNTIS : add_user(r)
  \/ \E r \in UE_RNTIS : write_pdu(r, "RB_ID_SRB0", ConReq)
  \/ tti_clock

SpecConn == Init /\ [][NextConn]_vars

\* one user: what it may send on the three SRBs, after a context setup or without
NextLife ==
  \/ \E r \in ONE_UE : add_user(r)
  \/ \E r \in ONE_UE : MayAlloc /\ write_pdu(r, "RB_ID_SRB0", ConReq)
  \/ \E r \in ONE_UE, p \in CCCH_PDUS : write_pdu(r, "RB_ID_SRB0", p)
  \/ \E r \in ONE_UE, p \in DCCH_PDUS : SrbUp(r, 1) /\ write_pdu(r, "RB_ID_SRB1", p)
  \/ \E r \in ONE_UE : SrbUp(r, 2) /\ write_pdu(r, "RB_ID_SRB2", Pdu("rrc_conn_recfg_complete", 0))
  \/ \E r \in ONE_UE : setup_ue_ctxt(r, [encryption_algorithms |-> AllBits,
                                        integrity_protection_algorithms |-> AllBits],
                                     <<[id |-> 5, qci |-> 9]>>)
  \/ tti_clock
  \/ \E r \in ONE_UE : timer_step(r)
  \/ \E r \in ONE_UE : timer_expiry(r)

SpecLife == Init /\ [][NextLife]_vars

\* one user and the MBMS user: the activity timer in every RRC state
NextTimer ==
  \/ \E r \in ONE_UE \cup {SRSLTE_MRNTI} : add_user(r)
  \/ \E r \in ONE_UE : MayAlloc /\ write_pdu(r, "RB_ID_SRB0", ConReq)
  \/ \E r \in ONE_UE, p \in {Pdu("rrc_conn_setup_complete", 0), Pdu("rrc_conn_recfg_complete", 0)} :
       SrbUp(r, 1) /\ write_pdu(r, "RB_ID_SRB1", p)
  \/ \E r \in ONE_UE : release_complete(r)
  \/ tti_clock
  \/ \E r \in ONE_UE \cup {SRSLTE_MRNTI} : timer_step(r)
  \/ \E r \in ONE_UE \cup {SRSLTE_MRNTI} : timer_expiry(r)

SpecTimer == Init /\ [][NextTimer]_vars

\* one user, with and without an S1AP context, and its radio-link failures
NextRlf ==
  \/ \E r \in ONE_UE : add_user(r)
  \/ \E r \in ONE_UE : MayAlloc /\ write_pdu(r, "RB_ID_SRB0", ConReq)
  \/ \E r \in ONE_UE : SrbUp(r, 1) /\ write_pdu(r, "RB_ID_SRB1", Pdu("rrc_conn_setup_complete", 0))
  \/ \E r \in ONE_UE : rl_failure(r)
  \/ \E r \in ONE_UE : set_activity_user(r)
  \/ \E r \in ONE_UE : release_complete(r)
  \/ tti_clock
  \/ \E r \in ONE_UE : timer_step(r)
  \/ \E r \in ONE_UE : timer_expiry(r)

SpecRlf == Init /\ [][NextRlf]_vars

\* one user: context setup and modification, and the user's answers
NextSecurity ==
  \/ \E r \in ONE_UE : add_user(r)
  \/ \E r \in ONE_UE : MayAlloc /\ write_pdu(r, "RB_ID_SRB0", ConReq)
  \/ \E r \in ONE_UE, p \in {Pdu("rrc_conn_setup_complete", 0), Pdu("security_mode_complete", 0),
                            Pdu("security_mode_fail", 0), Pdu("rrc_conn_recfg_complete", 0)} :
       SrbUp(r, 1) /\ write_pdu(r, "RB_ID_SRB1", p)
  \/ \E r \in ONE_UE, c \in CAPS_INPUTS, e \in ERAB_INPUTS : setup_ue_ctxt(r, c, e)
  \/ \E r \in ONE_UE, err, cp, kp \in BOOLEAN, c \in CAPS_INPUTS :
       modify_ue_ctxt(r, err, cp, c, kp)
  \/ tti_clock

SpecSecurity == Init /\ [][NextSecurity]_vars

\* two users and the C-RNTI control elements MAC decodes from them
NextMobility ==
  \/ \E r \in UE_RNTIS : add_user(r)
  \/ \E k, o \in UE_RNTIS : process_ce_crnti(k, o)
  \/ \E r \in ONE_UE : MayAlloc /\ write_pdu(r, "RB_ID_SRB0", ConReq)
  \/ \E r \in ONE_UE : SrbUp(r, 1) /\ write_pdu(r, "RB_ID_SRB1", Pdu("rrc_conn_recfg_complete", 0))
  \/ tti_clock

SpecMobility == Init /\ [][NextMobility]_vars

\* radio-link failures of the user counted, queued or popped stay below MaxRlf
RlfRoom(rnti) ==
  (IF users[rnti].present THEN users[rnti].rlf_cnt ELSE 0)
  + Cardinality({i \in DOMAIN rx_pdu_queue :
                   rx_pdu_queue[i].rnti = rnti /\ rx_pdu_queue[i].lcid = "LCID_RLF_USER"})
  + (IF tti_p.rnti = rnti /\ tti_p.lcid = "LCID_RLF_USER" THEN 1 ELSE 0)
  < MaxRlf

\* the dispatch queue: commands pushed by the other layers at any moment, for
\* users in the table or not, and rrc::tti_clock running step by step
NextQueue ==
  \/ \E r \in ONE_UE : user_mutex = "free" /\ add_user(r)
  \/ \E r \in UE_RNTIS : MayAlloc /\ enqueue("write_pdu", r, "RB_ID_SRB0", ConReq)
  \/ \E r \in UE_RNTIS : RlfRoom(r) /\ enqueue("rl_failure", r, "LCID_RLF_USER", NullPdu)
  \/ \E r \in UE_RNTIS : enqueue("set_activity_user", r, "LCID_ACT_USER", NullPdu)
  \/ \E r \in UE_RNTIS : enqueue("release_complete", r, "LCID_REL_USER", NullPdu)
  \/ tti_clock_lock
  \/ tti_clock_pop
  \/ tti_clock_handle

SpecQueue == Init /\ [][NextQueue]_vars

(***************************************************************************)
(* select_security_algorithms on every preference list and capability      *)
(***************************************************************************)
RECURSIVE SeqsUpTo(_, _)
SeqsUpTo(S, n) ==
  IF n = 0 THEN {<< >>}
  ELSE LET shorter == SeqsUpTo(S, n - 1)
       IN shorter \cup {Append(q, x) : q \in shorter, x \in S}

PREF_LISTS == SeqsUpTo(ALGO_IDS, MaxPrefLen)

(***************************************************************************)
(* The PUCCH resource functions of a user, called one by one in cells of   *)
(* several configurations                                                  *)
(***************************************************************************)
PucchCfg(cp, shift, ncs, period, nof_prb, nof_subframes, sf_mapping) ==
  [cp_isnorm |-> cp, delta_pucch_shift |-> shift, ncs_an |-> ncs,
   sr_cfg |-> [period |-> period, nof_prb |-> nof_prb, nof_subframes |-> nof_subframes,
               sf_mapping |-> sf_mapping],
   cqi_cfg |-> [mode |-> "PERIODIC", period |-> period, nof_prb |-> nof_prb,
                nof_subframes |-> nof_subframes, sf_mapping |-> sf_mapping]]

\* cells: the one of CellCfg; normal prefix and shift 1 with grids of one slot,
\* two subframes and two PRBs; and three whose mapping has an offset beyond the period
PUCCH_CFGS ==
  {CellCfg,
   PucchCfg(TRUE, 1, 1, 20, 1, 1, <<3>>),
   PucchCfg(TRUE, 1, 1, 20, 1, 2, <<3, 4>>),
   PucchCfg(TRUE, 1, 0, 20, 2, 1, <<3>>),
   PucchCfg(TRUE, 1, 0, 20, 1, 1, <<25>>),
   PucchCfg(FALSE, 3, 0, 5, 1, 2, <<7, 0>>),
   PucchCfg(FALSE, 3, 0, 5, 1, 2, <<0, 7>>)}

\* the users are in the table, as add_user leaves them
InitPucch ==
  /\ cfg \in PUCCH_CFGS
  /\ users = [r \in RNTIS |-> IF r \in UE_RNTIS THEN new_ue(r) ELSE NoUe]
  /\ rx_pdu_queue = << >>
  /\ sr_sched = EmptyGrid(cfg.sr_cfg)
  /\ cqi_sched = EmptyGrid(cfg.cqi_cfg)
  /\ pdcp_users = [r \in RNTIS |-> IF r \in UE_RNTIS THEN NewPdcp ELSE NoUe]
  /\ rlc_bearers = [r \in RNTIS |-> {}]
  /\ mac_ue = [r \in RNTIS |-> IF r \in UE_RNTIS THEN r ELSE 0]
  /\ s1ap_ctx = {}
  /\ mme_connected = TRUE
  /\ last = Op("init", 0, "", NullPdu)
  /\ user_mutex = "free"
  /\ tti_p = NoCmd
  /\ conres_id = [r \in RNTIS |-> 0]
  /\ pending_ta_commands = [r \in RNTIS |-> << >>]
  /\ pdus = [r \in RNTIS |-> << >>]
  /\ sched_ue_cfg = [r \in RNTIS |-> NoSchedCfg]
  /\ src_var = var_meas_cfg_t
  /\ target_var = var_meas_cfg_t
  /\ result_meascfg = NoMeasCfg
  /\ InitPagingAndBuffers
  /\ out = << >>
  /\ sec_in = NoSec
  /\ sec_out = NoSec

\* rrc::ue::sr_allocate called on the user r
ue_sr_allocate(r, period) ==
  /\ GridFill(sr_sched) <= MaxFill
  /\ LET res == sr_allocate_in(cfg, World, r, period)
     IN Commit(Call(res.w, Ret("sr_allocate", r, res.ret)),
               Op("sr_allocate", r, "", Pdu("period", period)))

\* rrc::ue::sr_free called on the user r
ue_sr_free(r) == Commit(sr_free(World, r), Op("sr_free", r, "", NullPdu))

\* rrc::ue::cqi_allocate called on the user r
ue_cqi_allocate(r, period) ==
  /\ GridFill(cqi_sched) < MaxAlloc
  /\ LET res == cqi_allocate_in(cfg, World, r, period)
     IN Commit(Call(res.w, Ret("cqi_allocate", r, res.ret)),
               Op("cqi_allocate", r, "", Pdu("period", period)))

\* rrc::ue::cqi_free called on the user r
ue_cqi_free(r) == Commit(cqi_free(World, r), Op("cqi_free", r, "", NullPdu))

\* the configured period and one that is no period
TryPeriods(c) == {c.period, c.period + 1}

NextPucch ==
  \/ \E r \in UE_RNTIS, p \in TryPeriods(cfg.sr_cfg) : ue_sr_allocate(r, p)
  \/ \E r \in UE_RNTIS : ue_sr_free(r)
  \/ \E r \in ONE_UE, p \in TryPeriods(cfg.cqi_cfg) : ue_cqi_allocate(r, p)
  \/ \E r \in ONE_UE : ue_cqi_free(r)

SpecPucch == InitPucch /\ [][NextPucch]_vars

(***************************************************************************)
(* The MAC ues of two admitted users                                       *)
(***************************************************************************)
UL_SDUS ==
  {UlSdu(0, 6, FALSE, 1), UlSdu(0, 6, TRUE, 0), UlSdu(0, 3, FALSE, 2),
   UlSdu(1, 100, FALSE, 0), UlSdu(3, 10, FALSE, 0), UlSdu(3, 65, FALSE, 0),
   UlSdu(4, 65, FALSE, 0)}
UL_CES ==
  {UlCe("PHR_REPORT", 0), UlCe("SHORT_BSR", 0), UlCe("SHORT_BSR", -1), UlCe("LONG_BSR", 0),
   UlCe("PADDING", 0), UlCe("CRNTI", FIRST_RNTI + 1)}
UL_PDUS == SeqsUpTo(UL_SDUS \cup UL_CES, MaxSubh)

InitMac == InitPucch /\ cfg = CellCfg

NextMac ==
  \/ \E k \in ONE_UE, pdu \in UL_PDUS : push_pdu(k, pdu)
  \/ \E k \in ONE_UE : process_pdus(k)
  \/ tti_clock

SpecMac == InitMac /\ [][NextMac]_vars

\* the elements the scheduler hands to generate_pdu, in any order
DlElem(lcid, nbytes) == [lcid |-> lcid, nbytes |-> nbytes]
DL_ELEMS ==
  {DlElem(0, 5), DlElem(3, 10), DlElem(TA_CMD, 0), DlElem(CON_RES_ID, 0),
   DlElem(SCELL_ACTIVATION, 0), DlElem(TA_CMD + 1, 0)}
DL_LISTS == SeqsUpTo(DL_ELEMS, MaxDlElems)

NextMacDl ==
  \/ \E k \in ONE_UE, ta \in {0, 40} : set_ta(k, ta)
  \/ \E k \in ONE_UE, list \in DL_LISTS, grant_size \in {3, 40}, rlc_bytes \in {0, 4},
         valid \in BOOLEAN :
       (valid \/ list = << >>) /\ generate_pdu(k, list, grant_size, rlc_bytes, valid)

SpecMacDl == InitMac /\ [][NextMacDl]_vars

InitSel ==
  /\ users = [r \in RNTIS |-> NoUe]
  /\ rx_pdu_queue = << >>
  /\ sr_sched = EmptyGrid(sr_cfg)
  /\ cqi_sched = EmptyGrid(cqi_cfg)
  /\ pdcp_users = [r \in RNTIS |-> NoUe]
  /\ rlc_bearers = [r \in RNTIS |-> {}]
  /\ mac_ue = [r \in RNTIS |-> 0]
  /\ s1ap_ctx = {}
  /\ mme_connected = TRUE
  /\ last = Op("init", 0, "", NullPdu)
  /\ user_mutex = "free"
  /\ tti_p = NoCmd
  /\ cfg = CellCfg
  /\ conres_id = [r \in RNTIS |-> 0]
  /\ pending_ta_commands = [r \in RNTIS |-> << >>]
  /\ pdus = [r \in RNTIS |-> << >>]
  /\ sched_ue_cfg = [r \in RNTIS |-> NoSchedCfg]
  /\ src_var = var_meas_cfg_t
  /\ target_var = var_meas_cfg_t
  /\ result_meascfg = NoMeasCfg
  /\ InitPagingAndBuffers
  /\ out = << >>
  /\ \E eea \in PREF_LISTS, eia \in PREF_LISTS, enc \in BitStrings, int \in BitStrings :
       sec_in = [used |-> TRUE, eea_preference_list |-> eea, eia_preference_list |-> eia,
                 security_capabilities |->
                   [encryption_algorithms |-> enc, integrity_protection_algorithms |-> int]]
  /\ sec_out = NoSec

\* a freshly constructed user runs the selection
select ==
  /\ sec_in.used
  /\ ~sec_out.used
  /\ sec_out' = [used |-> TRUE,
                 res |-> select_security_algorithms(
                           sec_in.eea_preference_list, sec_in.eia_preference_list,
                           sec_in.security_capabilities,
                           CIPHERING_ALGORITHM_ID_EEA0, INTEGRITY_ALGORITHM_ID_EIA0)]
  /\ UNCHANGED <<rrc_vars, sec_in, cfg, mac_vars, meas_vars, paging_vars, buf_vars>>

NextSel == select

SpecSel == InitSel /\ [][NextSel]_vars

(***************************************************************************)
(* Properties                                                              *)
(***************************************************************************)
\* the step is tti_clock taking a command of this bearer for a user in the table
Processed(r, lcid) ==
  /\ last'.op = "tti_clock"
  /\ last'.rnti = r
  /\ last'.lcid = lcid
  /\ users[r].present

\* a call with this message for the user among the calls o of a step
Sent(o, r, msg) == \E i \in DOMAIN o : o[i].rnti = r /\ o[i].msg = msg

\* the commands a step has added to rx_pdu_queue
Queued ==
  LET popped == \/ last'.op = "tti_clock" /\ tti_p = NoCmd
                \/ last'.op = "tti_clock_pop" /\ rx_pdu_queue # << >>
      kept == Len(rx_pdu_queue) - (IF popped THEN 1 ELSE 0)
  IN {rx_pdu_queue'[i] : i \in (kept + 1) .. Len(rx_pdu_queue')}

RemovalOf(r) == [rnti |-> r, lcid |-> "LCID_REM_USER", pdu |-> NullPdu]

\* a MAC ue created under another RNTI has taken over the identity r
Migrated(r) == users[r].present /\ \E k \in UE_RNTIS \ {r} : mac_ue[k] = r

\* C1: a C-RNTI CE naming an old RNTI that a user was already migrated to is
\* ignored: nothing is sent to the old RNTI, the old user's state stays, and no
\* removal of the old RNTI is queued.
C1_DuplicateCrntiCeIgnored ==
  [][\A k, o \in UE_RNTIS :
       (/\ last'.op = "process_ce_crnti"
        /\ last'.rnti = k
        /\ last'.pdu.arg = o
        /\ Migrated(o))
       => /\ \A i \in DOMAIN out' : out'[i].rnti # o
          /\ users'[o] = users[o]
          /\ RemovalOf(o) \notin Queued]_vars

\* C2: a user becomes registered only by a reconfiguration-complete received in
\* wait-for-reconfiguration-complete.
C2_RegisteredOnlyFromWaitReconf ==
  [][\A r \in UE_RNTIS :
       (/\ users[r].present
        /\ users'[r].present
        /\ users[r].state # "REGISTERED"
        /\ users'[r].state = "REGISTERED")
       => /\ users[r].state = "WAIT_FOR_CON_RECONF_COMPLETE"
          /\ last'.op = "tti_clock"
          /\ last'.rnti = r
          /\ last'.pdu.type = "rrc_conn_recfg_complete"]_vars

\* the step handles a connection request of a user that is idle
ConReqOfIdle(r) ==
  /\ Processed(r, "RB_ID_SRB0")
  /\ last'.pdu = ConReq
  /\ users[r].state = "IDLE"

SetupSent(r) ==
  \E i \in DOMAIN out' :
    /\ out'[i].kind = "rlc_write_sdu"
    /\ out'[i].rnti = r
    /\ out'[i].lcid = 0
    /\ out'[i].msg = "rrc_conn_setup"

\* some PUCCH slot of the grid still takes a user
SlotLeft(grid) == \E s \in DOMAIN grid : grid[s] <= max_users

C4_Msg3DurationInWaitSetup ==
  \A r \in UE_RNTIS :
    (users[r].present /\ users[r].state = "WAIT_FOR_CON_SETUP_COMPLETE")
    => /\ users[r].activity_timer.running
       /\ users[r].activity_timer.duration = (max_harq_msg3_tx + 1) * 16

\* C4 as amended: in wait-for-connection-setup-complete the activity timer runs
\* with the response duration of 1000 ms.
C4_ResponseDurationInWaitSetup ==
  \A r \in UE_RNTIS :
    (users[r].present /\ users[r].state = "WAIT_FOR_CON_SETUP_COMPLETE")
    => /\ users[r].activity_timer.running
       /\ users[r].activity_timer.duration = 1000

\* a connection request was answered by a setup and the user waits for the
\* setup-complete
C4_Witness ==
  \E r \in UE_RNTIS :
    /\ last = Op("tti_clock", r, "RB_ID_SRB0", ConReq)
    /\ users[r].present
    /\ users[r].state = "WAIT_FOR_CON_SETUP_COMPLETE"
    /\ Sent(out, r, "rrc_conn_setup")

\* C5: when the activity timer of a user expires, the user's state becomes
\* release-requested; unless the user is the MBMS user, S1AP is asked to release
\* it for inactivity if it holds a context for it, and else its removal is queued.
C5_ExpiryRequestsRelease ==
  [][\A r \in RNTIS :
       (last'.op = "activity_timer_expired" /\ last'.rnti = r)
       => /\ users'[r].present
          /\ users'[r].state = "RELEASE_REQUEST"
          /\ (r # SRSLTE_MRNTI /\ r \in s1ap_ctx)
             => \E i \in DOMAIN out' :
                  /\ out'[i].kind = "s1ap_user_release"
                  /\ out'[i].rnti = r
                  /\ out'[i].msg = "user_inactivity"
          /\ (r # SRSLTE_MRNTI /\ r \notin s1ap_ctx)
             => RemovalOf(r) \in Queued]_vars

\* the timer of a registered user, known to S1AP, has expired
C5_Witness ==
  \E r \in UE_RNTIS :
    /\ last.op = "activity_timer_expired"
    /\ last.rnti = r
    /\ users[r].state = "RELEASE_REQUEST"
    /\ users[r].activity_timer.duration = inactivity_timeout_ms
    /\ Sent(out, r, "user_inactivity")

\* C6 as stated: a radio-link failure processed for a user in the table puts the
\* user in release-requested and notifies S1AP of the release.
C6_RlfRequestsRelease ==
  [][\A r \in UE_RNTIS :
       Processed(r, "LCID_RLF_USER")
       => /\ users'[r].state = "RELEASE_REQUEST"
          /\ \E i \in DOMAIN out' : out'[i].kind = "s1ap_user_release" /\ out'[i].rnti = r]_vars

\* C6 as amended: a radio-link failure processed for a user in the table counts
\* the failure and leaves the RRC state alone; the first failure of the user asks
\* S1AP for the release (radio connection with UE lost) if S1AP holds a context
\* for the user and queues the user's removal if not; later failures do nothing
\* more.
C6_FirstRlfReleasesOrRemoves ==
  [][\A r \in UE_RNTIS :
       Processed(r, "LCID_RLF_USER")
       => /\ users'[r].state = users[r].state
          /\ users'[r].rlf_cnt = users[r].rlf_cnt + 1
          /\ (users[r].rlf_cnt = 0 /\ r \in s1ap_ctx)
             => /\ out' = <<Ev("s1ap_user_release", r, 0, "radio_conn_with_ue_lost", 0, 0)>>
                /\ Queued = {}
          /\ (users[r].rlf_cnt = 0 /\ r \notin s1ap_ctx)
             => /\ out' = << >>
                /\ Queued = {RemovalOf(r)}
          /\ users[r].rlf_cnt > 0
             => /\ out' = << >>
                /\ Queued = {}]_vars

\* the second failure of a user has been processed: counted and nothing else
C6_Witness ==
  \E r \in UE_RNTIS :
    /\ last.op = "tti_clock"
    /\ last.rnti = r
    /\ last.lcid = "LCID_RLF_USER"
    /\ users[r].present
    /\ users[r].rlf_cnt = 2
    /\ users[r].state = "WAIT_FOR_CON_RECONF_COMPLETE"
    /\ r \in s1ap_ctx
    /\ out = << >>

SRBS == {"RB_ID_SRB0", "RB_ID_SRB1", "RB_ID_SRB2"}

Restarted(r) ==
  /\ users'[r].present
  /\ users'[r].activity_timer.running
  /\ users'[r].activity_timer.elapsed = 0

\* C7 as stated: every SDU handled from a user on SRB0, SRB1 or SRB2 restarts the
\* user's activity timer.
C7_EverySduRestartsTimer ==
  [][\A r \in UE_RNTIS :
       (\E b \in SRBS : Processed(r, b)) => Restarted(r)]_vars

\* C7 as amended: every SDU handled from a user on SRB1 or SRB2, of whatever
\* type and also one that does not decode, and every connection request on SRB0
\* restarts the user's activity timer; a re-establishment request and an SDU
\* that does not decode on SRB0 leave the timer as it is.
C7_DcchAndConReqRestartTimer ==
  [][\A r \in UE_RNTIS :
       /\ (Processed(r, "RB_ID_SRB1") \/ Processed(r, "RB_ID_SRB2")) => Restarted(r)
       /\ (Processed(r, "RB_ID_SRB0") /\ last'.pdu = ConReq) => Restarted(r)
       /\ (Processed(r, "RB_ID_SRB0") /\ last'.pdu # ConReq)
          => /\ users'[r].present
             /\ users'[r].activity_timer = users[r].activity_timer]_vars

\* a reconfiguration-complete on SRB2 has restarted the inactivity timer
C7_Witness ==
  \E r \in UE_RNTIS :
    /\ last.op = "tti_clock"
    /\ last.rnti = r
    /\ last.lcid = "RB_ID_SRB2"
    /\ users[r].present
    /\ users[r].activity_timer = [duration |-> inactivity_timeout_ms, running |-> TRUE,
                                  elapsed |-> 0]

\* C8: neither the integrity algorithm configured in PDCP for SRB1 nor the one a
\* security-mode-command announces is EIA0.
C8_IntegrityNeverNull ==
  /\ \A r \in UE_RNTIS :
       (pdcp_users[r].present /\ 1 \in DOMAIN pdcp_users[r].sec_cfg)
       => pdcp_users[r].sec_cfg[1].integ_algo # INTEGRITY_ALGORITHM_ID_EIA0
  /\ \A i \in DOMAIN out :
       out[i].msg = "security_mode_cmd" => out[i].arg # INTEGRITY_ALGORITHM_ID_EIA0

\* the security negotiation with the user fails in this step: the selection run
\* by a context setup finds no algorithm, or the user answers security-mode-failure
NegotiationFails(r) ==
  \/ /\ last'.op = "setup_ue_ctxt"
     /\ last'.rnti = r
     /\ ~select_security_algorithms(eea_preference_list, eia_preference_list,
                                    users'[r].security_capabilities,
                                    users[r].cipher_algo, users[r].integ_algo).ret
  \/ /\ Processed(r, "RB_ID_SRB1")
     /\ last'.pdu.type = "security_mode_fail"

\* C9: when the security negotiation fails the user is released with cause
\* security-configuration-failed, and neither a security-mode-command nor a
\* reconfiguration goes out to it.
C9_FailedNegotiationReleases ==
  [][\A r \in UE_RNTIS :
       NegotiationFails(r)
       => /\ \E i \in DOMAIN out' :
               out'[i].rnti = r /\ out'[i].msg = "security_configuration_failed"
          /\ ~Sent(out', r, "security_mode_cmd")
          /\ ~Sent(out', r, "rrc_conn_recfg")]_vars

CipherSupported(a, caps) ==
  \/ a = CIPHERING_ALGORITHM_ID_EEA0
  \/ a \in 1 .. CapLen /\ caps.encryption_algorithms[a] = 1

IntegSupported(a, caps) ==
  /\ a # INTEGRITY_ALGORITHM_ID_EIA0
  /\ a \in 1 .. CapLen
  /\ caps.integrity_protection_algorithms[a] = 1

\* C10: the selection takes, for ciphering and for integrity, the first entry of
\* the preference list that the capabilities support (EEA0 always, EIA0 never),
\* and fails exactly when one of the lists has no such entry.
C10_FirstSupportedSelected ==
  sec_out.used
  => LET eea == sec_in.eea_preference_list
         eia == sec_in.eia_preference_list
         caps == sec_in.security_capabilities
         ci == {i \in DOMAIN eea : CipherSupported(eea[i], caps)}
         ii == {i \in DOMAIN eia : IntegSupported(eia[i], caps)}
     IN /\ sec_out.res.ret <=> (ci # {} /\ ii # {})
        /\ ci # {} => \E i \in ci : /\ \A j \in ci : i <= j
                                    /\ sec_out.res.cipher_algo = eea[i]
        /\ ii # {} => \E i \in ii : /\ \A j \in ii : i <= j
                                    /\ sec_out.res.integ_algo = eia[i]

\* EIA0 leads the integrity list and is passed over for EIA2; EEA3 is taken
\* before EEA0
C10_Witness ==
  /\ sec_out.used
  /\ sec_in.eia_preference_list = <<INTEGRITY_ALGORITHM_ID_EIA0, INTEGRITY_ALGORITHM_ID_128_EIA2>>
  /\ sec_in.eea_preference_list = <<CIPHERING_ALGORITHM_ID_128_EEA3, CIPHERING_ALGORITHM_ID_EEA0>>
  /\ sec_in.security_capabilities.integrity_protection_algorithms = <<0, 1, 0>>
  /\ sec_in.security_capabilities.encryption_algorithms = <<0, 0, 1>>
  /\ sec_out.res = [ret |-> TRUE, cipher_algo |-> CIPHERING_ALGORITHM_ID_128_EEA3,
                    integ_algo |-> INTEGRITY_ALGORITHM_ID_128_EIA2]

\* encryption of SRB1 is switched on for the user in this step
Srb1EncryptionOn(r) ==
  /\ pdcp_users'[r].present
  /\ 1 \in pdcp_users'[r].encryption
  /\ ~(pdcp_users[r].present /\ 1 \in pdcp_users[r].encryption)

\* the step handles a security-mode-complete of a user in the table
SecurityModeCompleteOf(r) ==
  /\ (Processed(r, "RB_ID_SRB1") \/ Processed(r, "RB_ID_SRB2"))
  /\ last'.pdu.type = "security_mode_complete"

\* the E-RAB of DRB1 is set up for the user with a configured QCI
Drb1Configured(r) == 5 \in DOMAIN users[r].erabs /\ users[r].erabs[5] \in QCI_CONFIGURED

TID_MSGS == {"rrc_conn_setup", "rrc_conn_release", "rrc_conn_recfg_upd", "rrc_conn_recfg",
             "security_mode_cmd"}

\* the transaction ids of the messages a step sent to the user, in order
TidsSent(o, r) ==
  LET s == SelectSeq(o, LAMBDA e : e.rnti = r /\ e.msg \in TID_MSGS)
  IN [i \in DOMAIN s |-> s[i].tid]

\* the step handles an UL-DCCH message of the user that decodes
DcchDecoded(r) ==
  /\ (Processed(r, "RB_ID_SRB1") \/ Processed(r, "RB_ID_SRB2"))
  /\ last'.pdu # NullPdu
  /\ last'.pdu.type # "undecodable"

\* the step builds a message for the user, taking its transaction id, and gives
\* it up: a connection setup without PUCCH resource, a reconfiguration without
\* configured DRB1
Abandoned(r) ==
  \/ /\ Processed(r, "RB_ID_SRB0")
     /\ last'.pdu = ConReq
     /\ ~(SlotLeft(sr_sched) /\ SlotLeft(cqi_sched))
  \/ /\ DcchDecoded(r)
     /\ \/ last'.pdu.type = "security_mode_complete"
        \/ last'.pdu = Pdu("ue_cap_info", 1)
     /\ ~Drb1Configured(r)

\* C12 as stated: the transaction ids sent to a user are in 0..3 and each is the
\* one sent before plus one modulo 4, whatever is received in between: the
\* counter moves only with the messages sent.
C12_TidsConsecutive ==
  [][\A r \in UE_RNTIS :
       (users[r].present /\ users'[r].present)
       => LET t == TidsSent(out', r)
          IN /\ \A i \in DOMAIN t : t[i] = (users[r].transaction_id + i - 1) % 4
             /\ users'[r].transaction_id = (users[r].transaction_id + Len(t)) % 4]_vars

\* C12 as amended: the transaction ids sent to a user are in 0..3; the ids
\* follow a counter that starts at 0, is set back to 0 by every UL-DCCH message
\* of the user that decodes, and moves by one for every message sent and for
\* every message given up after it took its id.
C12_TidsConsecutiveBetweenResets ==
  [][\A r \in UE_RNTIS :
       /\ (~users[r].present /\ users'[r].present) => users'[r].transaction_id = 0
       /\ (users[r].present /\ users'[r].present)
          => LET t == TidsSent(out', r)
                 base == IF DcchDecoded(r) THEN 0 ELSE users[r].transaction_id
                 lost == IF Abandoned(r) THEN 1 ELSE 0
             IN /\ \A i \in DOMAIN t : t[i] \in 0 .. 3 /\ t[i] = (base + i - 1) % 4
                /\ users'[r].transaction_id = (base + Len(t) + lost) % 4]_vars

\* a security-mode-command carries the id 0 that the connection setup carried:
\* the setup-complete in between has set the counter back
C12_Witness ==
  \E r \in UE_RNTIS :
    /\ last.op = "setup_ue_ctxt"
    /\ last.rnti = r
    /\ users[r].present
    /\ users[r].sr_allocated
    /\ users[r].state = "WAIT_FOR_CON_RECONF_COMPLETE"
    /\ TidsSent(out, r) = <<0>>
    /\ users[r].transaction_id = 1

\* the step handles a connection-reestablishment-request of a user in the table
ReestRequestOf(r) ==
  /\ Processed(r, "RB_ID_SRB0")
  /\ last'.pdu.type = "rrc_conn_reest_request"

ReestReject(r) == Ev("rlc_write_sdu", r, 0, "rrc_conn_reest_reject", 0, 0)

\* C13 as stated: every connection-reestablishment-request is answered by a
\* reestablishment-reject to the requesting RNTI, whose removal is queued, and
\* no user changes state because of it.
C13_ReestAlwaysRejected ==
  [][\A r \in UE_RNTIS :
       ReestRequestOf(r)
       => /\ \E i \in DOMAIN out' : out'[i] = ReestReject(r)
          /\ RemovalOf(r) \in Queued
          /\ users' = users]_vars

\* C13 as amended: a connection-reestablishment-request of a user in idle is
\* answered by a reestablishment-reject to the requesting RNTI, whose removal is
\* queued (and S1AP is asked to release the RNTI the request names if that RNTI
\* is in the table); a request of a user that is not idle is dropped; in both
\* cases no user changes state.
C13_ReestOfIdleRejected ==
  [][\A r \in UE_RNTIS :
       ReestRequestOf(r)
       => /\ users' = users
          /\ users[r].state = "IDLE"
             => /\ Queued = {RemovalOf(r)}
                /\ out' = IF users[last'.pdu.arg].present
                          THEN <<ReestReject(r),
                                 Ev("s1ap_user_release", last'.pdu.arg, 0,
                                    "release_due_to_eutran_generated_reason", 0, 0)>>
                          ELSE <<ReestReject(r)>>
          /\ users[r].state # "IDLE"
             => /\ Queued = {}
                /\ out' = << >>]_vars

\* a reestablishment request of a user waiting for a setup-complete was dropped
C13_Witness ==
  \E r \in UE_RNTIS :
    /\ last.op = "tti_clock"
    /\ last.rnti = r
    /\ last.lcid = "RB_ID_SRB0"
    /\ last.pdu.type = "rrc_conn_reest_request"
    /\ users[r].present
    /\ users[r].state = "WAIT_FOR_CON_SETUP_COMPLETE"
    /\ out = << >>
    /\ rx_pdu_queue = << >>

\* the step is the pop of tti_clock and finds a command
Pops == last'.op = "tti_clock_pop" /\ rx_pdu_queue # << >>

\* C14: the commands pushed to rx_pdu_queue are handled by tti_clock in the
\* order of their pushes (so are those of one user), one command per call of
\* tti_clock, and from the pop to the end of the handling tti_clock holds
\* user_mutex, during which no other entry point touches the user table.
C14_QueueOrderOnePerCallUnderMutex ==
  [][/\ LET kept == IF Pops THEN Tail(rx_pdu_queue) ELSE rx_pdu_queue
        IN /\ Len(rx_pdu_queue') >= Len(kept)
           /\ SubSeq(rx_pdu_queue', 1, Len(kept)) = kept
           /\ Pops => tti_p' = Head(rx_pdu_queue)
     /\ last'.op = "tti_clock_pop"
        => /\ user_mutex = "tti_clock"
           /\ tti_p = NoCmd
           /\ ~Pops => user_mutex' = "free"
     /\ last'.op = "tti_clock"
        => /\ user_mutex = "tti_clock"
           /\ tti_p = [rnti |-> last'.rnti, lcid |-> last'.lcid, pdu |-> last'.pdu]
           /\ tti_p' = NoCmd
           /\ user_mutex' = "free"
     /\ (user_mutex = "tti_clock" /\ last'.op \notin {"tti_clock", "tti_clock_pop"})
        => /\ user_mutex' = "tti_clock"
           /\ <<users, sr_sched, cqi_sched, pdcp_users, rlc_bearers>>' =
                <<users, sr_sched, cqi_sched, pdcp_users, rlc_bearers>>]_vars

\* tti_clock holds a command of a user it has popped, and two more commands of
\* that user, pushed meanwhile, wait in the order of their pushes
C14_Witness ==
  \E r \in UE_RNTIS :
    /\ user_mutex = "tti_clock"
    /\ tti_p = [rnti |-> r, lcid |-> "RB_ID_SRB0", pdu |-> ConReq]
    /\ users[r].present
    /\ last.op = "release_complete"
    /\ rx_pdu_queue = <<[rnti |-> r, lcid |-> "LCID_ACT_USER", pdu |-> NullPdu],
                        [rnti |-> r, lcid |-> "LCID_REL_USER", pdu |-> NullPdu]>>

\* C15: a command that tti_clock handles for an RNTI that is not in the user
\* table is discarded: no call leaves the RRC, nothing is pushed, and the user
\* table, the PUCCH grids and the PDCP, RLC and MAC state stay as they were.
C15_CommandOfRemovedUserDiscarded ==
  [][(last'.op = "tti_clock" /\ ~users[last'.rnti].present)
     => /\ out' = << >>
        /\ rx_pdu_queue' = rx_pdu_queue
        /\ <<users, sr_sched, cqi_sched, pdcp_users, rlc_bearers, mac_ue, s1ap_ctx>>' =
             <<users, sr_sched, cqi_sched, pdcp_users, rlc_bearers, mac_ue, s1ap_ctx>>]_vars

\* a removal command, which only a handler of a user in the table pushes, has
\* been handled after another removal had already taken the user from the table
C15_Witness ==
  \E r \in UE_RNTIS :
    /\ last = Op("tti_clock", r, "LCID_REM_USER", NullPdu)
    /\ ~users[r].present
    /\ out = << >>

\* every slot of the grid holds as many users as the cell's capacity, or more
AtCapacity(grid, c) == \A s \in DOMAIN grid : grid[s] >= MaxUsers(c)

\* C16: whatever SR and CQI allocations and frees have been made, no counter
\* of either grid exceeds the capacity 12 * (3 or 2) / delta-shift, and an
\* allocation attempted when every slot is at capacity returns -1 and leaves
\* the grid as it was.
C16_CountersWithinCapacity ==
  [][/\ \A s \in DOMAIN sr_sched : sr_sched'[s] <= MaxUsers(cfg)
     /\ \A s \in DOMAIN cqi_sched : cqi_sched'[s] <= MaxUsers(cfg)
     /\ (last'.op = "sr_allocate" /\ AtCapacity(sr_sched, cfg))
        => /\ sr_sched' = sr_sched
           /\ out' = <<Ret("sr_allocate", last'.rnti, -1)>>
     /\ (last'.op = "cqi_allocate" /\ AtCapacity(cqi_sched, cfg))
        => /\ cqi_sched' = cqi_sched
           /\ out' = <<Ret("cqi_allocate", last'.rnti, -1)>>]_vars

\* the users in the table whose SR handle, or CQI handle, points at the slot s
SrHolders(s) ==
  {r \in RNTIS : /\ users[r].present
                 /\ users[r].sr_allocated
                 /\ <<users[r].sr_sched_prb_idx, users[r].sr_sched_sf_idx>> = s}
CqiHolders(s) ==
  {r \in RNTIS : /\ users[r].present
                 /\ users[r].cqi_allocated
                 /\ <<users[r].cqi_sched_prb_idx, users[r].cqi_sched_sf_idx>> = s}

\* C17: whatever admissions, connection requests and removals have been
\* handled, each SR counter and each CQI counter equals the number of users in
\* the table whose handle points at its slot; with no user in the table every
\* counter is therefore 0, its value before any allocation.
C17_CountersMatchHandles ==
  /\ \A s \in DOMAIN sr_sched : sr_sched[s] = Cardinality(SrHolders(s))
  /\ \A s \in DOMAIN cqi_sched : cqi_sched[s] = Cardinality(CqiHolders(s))

\* C18: sr_free and cqi_free are idempotent: once a user's resource has been
\* freed, freeing it again leaves the grid as the first free left it.
C18_FreeIdempotent ==
  /\ last.op = "sr_free" => sr_free(World, last.rnti).sr_sched = sr_sched
  /\ last.op = "cqi_free" => cqi_free(World, last.rnti).cqi_sched = cqi_sched

\* the SR slots whose subframe offset is below the period, and those of them
\* that hold fewer users than the capacity
SrBelow(period) == {s \in DOMAIN sr_sched : cfg.sr_cfg.sf_mapping[s[2] + 1] < period}
SrFreeBelow(period) == {s \in SrBelow(period) : sr_sched[s] < MaxUsers(cfg)}

\* C19: sr_allocate with a valid period returns 0 whenever some slot has free
\* capacity and a subframe offset below the period, and the slot it then uses
\* is a least-loaded one among the slots whose offset is below the period.
C19_SrAllocateLeastLoadedBelowPeriod ==
  [][(/\ last'.op = "sr_allocate"
      /\ last'.pdu.arg \in SR_PERIODS
      /\ SrFreeBelow(last'.pdu.arg) # {})
     => LET r == last'.rnti
            s == <<users'[r].sr_sched_prb_idx, users'[r].sr_sched_sf_idx>>
        IN /\ out' = <<Ret("sr_allocate", r, 0)>>
           /\ s \in SrBelow(last'.pdu.arg)
           /\ \A t \in SrBelow(last'.pdu.arg) : sr_sched[s] <= sr_sched[t]
           /\ sr_sched' = [sr_sched EXCEPT ![s] = @ + 1]]_vars

\* the cell has a normal cyclic prefix and delta-shift 1
NormalShift1 == cfg.cp_isnorm /\ cfg.delta_pucch_shift = 1
\* the step is sr_allocate(20) on the empty SR grid of such a cell
FirstSrAllocate ==
  /\ NormalShift1
  /\ GridFill(sr_sched) = 0
  /\ last'.op = "sr_allocate" /\ last'.pdu.arg = 20
\* the step is sr_allocate(20) right after an sr_allocate(20) that succeeded on
\* the empty SR grid of such a cell
SecondSrAllocate ==
  /\ NormalShift1
  /\ GridFill(sr_sched) = 1
  /\ last.op = "sr_allocate" /\ last.pdu.arg = 20 /\ out = <<Ret("sr_allocate", last.rnti, 0)>>
  /\ last'.op = "sr_allocate" /\ last'.pdu.arg = 20
\* the first sr_allocate returned I_sr = 20 - 5 + sf_mapping[0] and n_pucch = ncs_an
FirstSrResult(r) ==
  /\ out' = <<Ret("sr_allocate", r, 0)>>
  /\ users'[r].sr_I = 20 - 5 + cfg.sr_cfg.sf_mapping[1]
  /\ users'[r].sr_N_pucch = cfg.ncs_an

\* C20 as stated: in a cell with normal prefix and delta-shift 1, the first
\* sr_allocate(20) on the empty grid returns I_sr = 20 - 5 + sf_mapping[0] and
\* n_pucch = ncs_an, and the sr_allocate(20) that follows returns an n_pucch
\* one larger than the first, whatever the size of the grid.
C20_SecondNPucchOneLarger ==
  [][/\ FirstSrAllocate => FirstSrResult(last'.rnti)
     /\ SecondSrAllocate
        => /\ out' = <<Ret("sr_allocate", last'.rnti, 0)>>
           /\ users'[last'.rnti].sr_N_pucch = users[last.rnti].sr_N_pucch + 1]_vars

\* C20 amended: the first result is as stated when sf_mapping[0] is below 20;
\* the second n_pucch is one larger than the first when the grid has a single
\* slot, and otherwise the second user gets the next empty slot, subframe
\* slots first, and the n_pucch prb_slot * 36 + ncs_an.
C20_SecondNPucchOneLargerInOneSlotGrid ==
  [][/\ (FirstSrAllocate /\ cfg.sr_cfg.sf_mapping[1] < 20) => FirstSrResult(last'.rnti)
     /\ (SecondSrAllocate /\ \A s \in DOMAIN sr_sched :
                               cfg.sr_cfg.sf_mapping[s[2] + 1] < 20)
        => LET r == last'.rnti
               single == cfg.sr_cfg.nof_prb = 1 /\ cfg.sr_cfg.nof_subframes = 1
               s == <<users'[r].sr_sched_prb_idx, users'[r].sr_sched_sf_idx>>
           IN /\ out' = <<Ret("sr_allocate", r, 0)>>
              /\ single => users'[r].sr_N_pucch = users[last.rnti].sr_N_pucch + 1
              /\ ~single => /\ s = (IF cfg.sr_cfg.nof_subframes > 1 THEN <<0, 1>> ELSE <<1, 0>>)
                            /\ users'[r].sr_N_pucch = s[1] * 36 + cfg.ncs_an]_vars

\* in a one-slot grid of such a cell, two users hold the n_pucch ncs_an and
\* ncs_an + 1 after two allocations
C20_Witness ==
  /\ NormalShift1
  /\ cfg.sr_cfg.nof_prb = 1 /\ cfg.sr_cfg.nof_subframes = 1
  /\ last.op = "sr_allocate" /\ last.rnti = FIRST_RNTI + 1
  /\ out = <<Ret("sr_allocate", FIRST_RNTI + 1, 0)>>
  /\ GridFill(sr_sched) = 2
  /\ users[FIRST_RNTI].sr_allocated /\ users[FIRST_RNTI].sr_N_pucch = cfg.ncs_an
  /\ users[FIRST_RNTI].sr_I = 15 + cfg.sr_cfg.sf_mapping[1]
  /\ users[FIRST_RNTI + 1].sr_N_pucch = cfg.ncs_an + 1

\* the user is in the table, waiting for a connection-setup-complete
WaitsForSetupComplete(u) == u.present /\ u.state = "WAIT_FOR_CON_SETUP_COMPLETE"

\* C21: a connection request handled when no SR or no CQI resource can be
\* allocated sends no connection setup and does not move the user to
\* wait-for-connection-setup-complete, and a user enters that state only in a
\* step that sends it a connection setup.
C21_FailedAllocationFailsAdmission ==
  [][\A r \in UE_RNTIS :
       /\ (/\ Processed(r, "RB_ID_SRB0")
           /\ last'.pdu = ConReq
           /\ ~(SlotLeft(sr_sched) /\ SlotLeft(cqi_sched)))
          => /\ ~SetupSent(r)
             /\ WaitsForSetupComplete(users'[r]) => WaitsForSetupComplete(users[r])
       /\ (WaitsForSetupComplete(users'[r]) /\ ~WaitsForSetupComplete(users[r]))
          => SetupSent(r)]_vars

\* the step is process_pdus of the MAC ue under k with the one PDU pdus[k][1]
ProcessesOnePdu(k) == last'.op = "process_pdus" /\ last'.rnti = k /\ Len(pdus[k]) = 1
\* the calls of sched->ul_buffer_add among the calls o
BufferAdds(o) == SelectSeq(o, LAMBDA e : e.kind = "sched_ul_buffer_add")
\* the PDU holds a BSR control element; it holds one the MAC accepts
HasBsr(pdu) ==
  \E i \in DOMAIN pdu : ~pdu[i].sdu /\ pdu[i].ce \in {"TRUNC_BSR", "SHORT_BSR", "LONG_BSR"}
HasValidBsr(pdu) ==
  \E i \in DOMAIN pdu : /\ ~pdu[i].sdu
                        /\ \/ pdu[i].ce = "LONG_BSR"
                           \/ pdu[i].ce \in {"TRUNC_BSR", "SHORT_BSR"} /\ pdu[i].arg # -1
\* the data bearers (LCID above 2) that carried more than 64 bytes in one SDU
BigDataLcids(pdu) ==
  {pdu[i].lcid : i \in {j \in DOMAIN pdu : pdu[j].sdu /\ pdu[j].lcid > 2 /\ pdu[j].size > 64}}
\* the LCID of the first among the largest SDUs of the PDU, 0 without SDU
MostDataLcid(pdu) ==
  LET sdus == {i \in DOMAIN pdu : pdu[i].sdu}
  IN IF sdus = {} THEN 0
     ELSE pdu[CHOOSE i \in sdus :
                \A j \in sdus : pdu[j].size < pdu[i].size
                                \/ (pdu[j].size = pdu[i].size /\ i <= j)].lcid

\* C22 as stated: a 256-byte buffer status is added exactly when the PDU holds
\* no BSR control element and a data bearer carried more than 64 bytes, once,
\* and for such a bearer.
C22_SyntheticBsrOver64 ==
  [][\A k \in UE_RNTIS :
       ProcessesOnePdu(k)
       => LET pdu == pdus[k][1]
              adds == BufferAdds(out')
          IN IF ~HasBsr(pdu) /\ BigDataLcids(pdu) # {}
             THEN /\ Len(adds) = 1
                  /\ adds[1].lcid \in BigDataLcids(pdu)
                  /\ adds[1].arg = 256
             ELSE adds = << >>]_vars

\* C22 as amended: a 256-byte buffer status is added exactly when no BSR
\* control element was accepted and the SDU that carried the most bytes, the
\* first of them if several did, is of a data bearer (LCID above 2), whatever
\* its size; it is added once, for that LCID.
C22_SyntheticBsrForMostData ==
  [][\A k \in UE_RNTIS :
       ProcessesOnePdu(k)
       => LET pdu == pdus[k][1]
              adds == BufferAdds(out')
          IN IF ~HasValidBsr(pdu) /\ MostDataLcid(pdu) > 2
             THEN /\ Len(adds) = 1
                  /\ adds[1].lcid = MostDataLcid(pdu)
                  /\ adds[1].arg = 256
             ELSE adds = << >>]_vars

\* a PDU with ten bytes on LCID 3 and no accepted BSR has been
\* processed and the buffer status added for LCID 3
C22_Witness ==
  /\ last.op = "process_pdus"
  /\ Len(out) = 2
  /\ out[1].kind = "rlc_write_pdu" /\ out[1].lcid = 3 /\ out[1].arg = 10
  /\ out[2].kind = "sched_ul_buffer_add" /\ out[2].lcid = 3 /\ out[2].arg = 256

\* the PDU that generate_pdu returned in the step
PduBuilt == out'[Len(out')].arg
\* the step is a generate_pdu that built a PDU
BuildsPdu == last'.op = "generate_pdu" /\ last'.pdu.arg.valid

MaxMeasObjs == 2
MaxReportCfgs == 1
MaxMeasIds == 1

\* meas_cell_cfg_t
meas_cell_cfg_t(earfcn, pci, q_offset, eci) ==
  [earfcn |-> earfcn, pci |-> pci, q_offset |-> q_offset, eci |-> eci]

\* the elements of each kind of list are keyed and sorted by one field, id
Ids(list, id) == {list[i][id] : i \in DOMAIN list}

\* srslte::find_rrc_obj_id_gap: the lowest identifier, from 1, the list does not hold
find_rrc_obj_id_gap(list, id) ==
  CHOOSE i \in 1..(Len(list) + 1) :
    i \notin Ids(list, id) /\ \A j \in 1..(i - 1) : j \in Ids(list, id)

\* srslte::add_rrc_obj: the element is appended and the list sorted by identifier
add_rrc_obj(list, obj, id) == SortSeq(Append(list, obj), LAMBDA a, b : a[id] < b[id])

\* cells_to_add_mod_s of a configured cell: the cell index is the low octet of the ECI
cells_to_add_mod_s(cellcfg) ==
  [cell_idx |-> cellcfg.eci % 256, pci |-> cellcfg.pci,
   cell_individual_offset |-> cellcfg.q_offset]

\* meas_obj_to_add_mod_s holding a meas_obj_eutra_s
meas_obj_to_add_mod_s(id, carrier_freq, cells, rem) ==
  [meas_obj_id |-> id, carrier_freq |-> carrier_freq,
   cells_to_add_mod_list_present |-> cells # << >>, cells_to_add_mod_list |-> cells,
   cells_to_rem_list_present |-> rem # << >>, cells_to_rem_list |-> rem]

\* var_meas_cfg_t::add_cell_cfg, appending behind an equal cell index
add_cell_cfg_unsorted(v, cellcfg) ==
  LET new_cell == cells_to_add_mod_s(cellcfg)
      objs == v.meas_obj_list
      oi == {i \in DOMAIN objs : objs[i].carrier_freq = cellcfg.earfcn}
  IN IF oi # {}
     THEN LET i == CHOOSE i \in oi : TRUE
          IN [v EXCEPT !.meas_obj_list[i] =
                meas_obj_to_add_mod_s(@.meas_obj_id, @.carrier_freq,
                                      Append(@.cells_to_add_mod_list, new_cell), << >>)]
     ELSE [v EXCEPT !.meas_obj_list =
             Append(@, meas_obj_to_add_mod_s(Len(objs) + 1, cellcfg.earfcn, <<new_cell>>, << >>))]

\* var_meas_cfg_t::add_cell_cfg
add_cell_cfg(v, cellcfg) ==
  LET new_cell == cells_to_add_mod_s(cellcfg)
      objs == v.meas_obj_list
      oi == {i \in DOMAIN objs : objs[i].carrier_freq = cellcfg.earfcn}
  IN IF oi # {}
     THEN \* a measurement object of this EARFCN exists
          LET i == CHOOSE i \in oi : \A k \in oi : i <= k
              cells == objs[i].cells_to_add_mod_list
              ci == {j \in DOMAIN cells : cells[j].cell_idx = new_cell.cell_idx}
          IN IF ci # {}
             THEN \* the cell exists: its fields are overwritten
                  LET j == CHOOSE j \in ci : TRUE
                  IN [v EXCEPT !.meas_obj_list[i].cells_to_add_mod_list[j] = new_cell]
             ELSE [v EXCEPT !.meas_obj_list[i] =
                     meas_obj_to_add_mod_s(@.meas_obj_id, @.carrier_freq,
                                           add_rrc_obj(cells, new_cell, "cell_idx"), << >>)]
     ELSE \* no measurement object of this EARFCN yet
          [v EXCEPT !.meas_obj_list =
             add_rrc_obj(@, meas_obj_to_add_mod_s(find_rrc_obj_id_gap(objs, "meas_obj_id"),
                                                  cellcfg.earfcn, <<new_cell>>, << >>),
                         "meas_obj_id")]

\* var_meas_cfg_t::add_report_cfg
add_report_cfg(v, reportcfg) ==
  [v EXCEPT !.report_cfg_list =
     add_rrc_obj(@, [report_cfg_id |-> find_rrc_obj_id_gap(@, "report_cfg_id"),
                     report_cfg |-> reportcfg], "report_cfg_id")]

\* var_meas_cfg_t::add_measid_cfg: the object and the report must exist
add_measid_cfg(v, measobjid, measrepid) ==
  IF /\ measobjid \in Ids(v.meas_obj_list, "meas_obj_id")
     /\ measrepid \in Ids(v.report_cfg_list, "report_cfg_id")
  THEN [v EXCEPT !.meas_id_list =
          add_rrc_obj(@, [meas_id |-> find_rrc_obj_id_gap(@, "meas_id"),
                          meas_obj_id |-> measobjid, report_cfg_id |-> measrepid],
                      "meas_id")]
  ELSE v

\* the elements of the target list, whether the source list holds them or not
diff_add_mod_all(src, target) == target

\* compute_diff_*: the elements of the target list that the source list lacks
\* or holds with another value, in the order of the target list
diff_add_mod(src, target) ==
  SelectSeq(target, LAMBDA e : \A i \in DOMAIN src : src[i] # e)

\* compute_diff_*: the identifiers the source list holds and the target list
\* lacks, in the order of the source list
diff_rem(src, target, id) ==
  LET gone == SelectSeq(src, LAMBDA e : e[id] \notin Ids(target, id))
  IN [i \in DOMAIN gone |-> gone[i][id]]

\* the cells of a measurement object both lists hold, no cell ever removed
compute_diff_cells_no_rem(target_obj, src_obj) ==
  meas_obj_to_add_mod_s(
    target_obj.meas_obj_id, target_obj.carrier_freq,
    diff_add_mod(src_obj.cells_to_add_mod_list, target_obj.cells_to_add_mod_list),
    << >>)

\* var_meas_cfg_t::compute_diff_cells: the entry of a measurement object both
\* lists hold, with the cells to add or modify and the cell indexes to remove
compute_diff_cells(target_obj, src_obj) ==
  meas_obj_to_add_mod_s(
    target_obj.meas_obj_id, target_obj.carrier_freq,
    diff_add_mod(src_obj.cells_to_add_mod_list, target_obj.cells_to_add_mod_list),
    diff_rem(src_obj.cells_to_add_mod_list, target_obj.cells_to_add_mod_list, "cell_idx"))

\* var_meas_cfg_t::compute_diff_meas_objs: the measurement objects to add or modify
compute_diff_meas_objs(src, target) ==
  LET changed == diff_add_mod(src.meas_obj_list, target.meas_obj_list)
      entry(t) ==
        LET si == {i \in DOMAIN src.meas_obj_list :
                     src.meas_obj_list[i].meas_obj_id = t.meas_obj_id}
        IN IF si = {} THEN t
           ELSE compute_diff_cells(t, src.meas_obj_list[CHOOSE i \in si : TRUE])
  IN [i \in DOMAIN changed |-> entry(changed[i])]

\* var_meas_cfg_t::compute_diff_meas_cfg: the meas_cfg_s that takes a user
\* from this configuration to the target
compute_diff_meas_cfg(src, target) ==
  LET obj_add == compute_diff_meas_objs(src, target)
      obj_rem == diff_rem(src.meas_obj_list, target.meas_obj_list, "meas_obj_id")
      rep_add == diff_add_mod(src.report_cfg_list, target.report_cfg_list)
      rep_rem == diff_rem(src.report_cfg_list, target.report_cfg_list, "report_cfg_id")
      id_add == diff_add_mod(src.meas_id_list, target.meas_id_list)
      id_rem == diff_rem(src.meas_id_list, target.meas_id_list, "meas_id")
  IN [computed |-> TRUE,
      meas_obj_to_rem_list_present |-> obj_rem # << >>, meas_obj_to_rem_list |-> obj_rem,
      meas_obj_to_add_mod_list_present |-> obj_add # << >>,
      meas_obj_to_add_mod_list |-> obj_add,
      report_cfg_to_rem_list_present |-> rep_rem # << >>, report_cfg_to_rem_list |-> rep_rem,
      report_cfg_to_add_mod_list_present |-> rep_add # << >>,
      report_cfg_to_add_mod_list |-> rep_add,
      meas_id_to_rem_list_present |-> id_rem # << >>, meas_id_to_rem_list |-> id_rem,
      meas_id_to_add_mod_list_present |-> id_add # << >>, meas_id_to_add_mod_list |-> id_add]

(***************************************************************************)
(* Two configurations built cell by cell and the delta between them        *)
(***************************************************************************)
\* the neighbour cells configured: two cells of one EARFCN, one of another,
\* and the first cell with another offset and with another PCI
MEAS_CELLS ==
  {meas_cell_cfg_t(3400, 1, 0, 105473), meas_cell_cfg_t(3400, 2, 0, 105474),
   meas_cell_cfg_t(2850, 1, 0, 105473), meas_cell_cfg_t(3400, 1, 1, 105473),
   meas_cell_cfg_t(3400, 3, 0, 105473)}

\* report_cfg_eutra_s: two event A3 reports that differ in the quantities
REPORT_CFGS ==
  {[trigger_quant |-> "rsrp", report_quant |-> "both"],
   [trigger_quant |-> "rsrq", report_quant |-> "same_as_trigger_quant"]}

MeasStep(target, src, result) ==
  /\ target_var' = target
  /\ src_var' = src
  /\ result_meascfg' = result
  /\ UNCHANGED <<rrc_vars, sec_vars, cfg, mac_vars, paging_vars, buf_vars>>

\* target_var.add_cell_cfg(cell)
target_add_cell_cfg(cell) ==
  /\ \/ Len(target_var.meas_obj_list) < MaxMeasObjs
     \/ \E i \in DOMAIN target_var.meas_obj_list :
          target_var.meas_obj_list[i].carrier_freq = cell.earfcn
  /\ MeasStep(add_cell_cfg(target_var, cell), src_var, NoMeasCfg)

\* target_var.add_report_cfg(rep)
target_add_report_cfg(rep) ==
  /\ Len(target_var.report_cfg_list) < MaxReportCfgs
  /\ MeasStep(add_report_cfg(target_var, rep), src_var, NoMeasCfg)

\* target_var.add_measid_cfg(measobjid, measrepid)
target_add_measid_cfg(measobjid, measrepid) ==
  /\ Len(target_var.meas_id_list) < MaxMeasIds
  /\ MeasStep(add_measid_cfg(target_var, measobjid, measrepid), src_var, NoMeasCfg)

\* src_var = target_var
src_assign == MeasStep(target_var, target_var, NoMeasCfg)

\* target_var = var_meas_cfg_t{}
target_reset == MeasStep(var_meas_cfg_t, src_var, NoMeasCfg)

\* src_var.compute_diff_meas_cfg(target_var, &result_meascfg)
src_compute_diff_meas_cfg ==
  MeasStep(target_var, src_var, compute_diff_meas_cfg(src_var, target_var))

NextMeas ==
  \/ \E cell \in MEAS_CELLS : target_add_cell_cfg(cell)
  \/ \E rep \in REPORT_CFGS : target_add_report_cfg(rep)
  \/ \E o \in 1..MaxMeasObjs, r \in 1..MaxReportCfgs : target_add_measid_cfg(o, r)
  \/ src_assign
  \/ target_reset
  \/ src_compute_diff_meas_cfg

SpecMeas == Init /\ [][NextMeas]_vars

\* a meas_cfg_s applied to a configuration: the listed identifiers removed,
\* the listed elements added or put in place of the element of the same
\* identifier, each list kept in the order of its identifiers
ApplyList(list, rem, add_mod, id) ==
  LET kept == SelectSeq(list, LAMBDA e :
                /\ \A i \in DOMAIN rem : rem[i] # e[id]
                /\ e[id] \notin Ids(add_mod, id))
  IN SortSeq(kept \o add_mod, LAMBDA a, b : a[id] < b[id])

ApplyMeasObj(list, a) ==
  LET si == {i \in DOMAIN list : list[i].meas_obj_id = a.meas_obj_id}
  IN IF si = {} THEN meas_obj_to_add_mod_s(a.meas_obj_id, a.carrier_freq,
                                           a.cells_to_add_mod_list, << >>)
     ELSE meas_obj_to_add_mod_s(
            a.meas_obj_id, a.carrier_freq,
            ApplyList(list[CHOOSE i \in si : TRUE].cells_to_add_mod_list,
                      a.cells_to_rem_list, a.cells_to_add_mod_list, "cell_idx"),
            << >>)

ApplyMeasCfg(v, d) ==
  [meas_obj_list |->
     ApplyList(v.meas_obj_list, d.meas_obj_to_rem_list,
               [i \in DOMAIN d.meas_obj_to_add_mod_list |->
                  ApplyMeasObj(v.meas_obj_list, d.meas_obj_to_add_mod_list[i])],
               "meas_obj_id"),
   report_cfg_list |->
     ApplyList(v.report_cfg_list, d.report_cfg_to_rem_list, d.report_cfg_to_add_mod_list,
               "report_cfg_id"),
   meas_id_list |->
     ApplyList(v.meas_id_list, d.meas_id_to_rem_list, d.meas_id_to_add_mod_list,
               "meas_id")]

\* C24: the delta compute_diff_meas_cfg computes, applied to the source
\* configuration, gives the target configuration
C24_DeltaAppliedToSourceIsTarget ==
  result_meascfg.computed => ApplyMeasCfg(src_var, result_meascfg) = target_var

\* a delta was computed that removes a cell of a measurement object, replaces
\* a report configuration and removes a meas-id
C24_Witness ==
  /\ result_meascfg.computed
  /\ \E i \in DOMAIN result_meascfg.meas_obj_to_add_mod_list :
       result_meascfg.meas_obj_to_add_mod_list[i].cells_to_rem_list_present
  /\ result_meascfg.report_cfg_to_add_mod_list_present
  /\ \E i \in DOMAIN src_var.report_cfg_list : src_var.report_cfg_list[i].report_cfg_id = 1
  /\ result_meascfg.meas_id_to_rem_list_present

\* no list of the delta is flagged present and every list is empty
EmptyDelta(d) ==
  /\ ~d.meas_obj_to_rem_list_present /\ d.meas_obj_to_rem_list = << >>
  /\ ~d.meas_obj_to_add_mod_list_present /\ d.meas_obj_to_add_mod_list = << >>
  /\ ~d.report_cfg_to_rem_list_present /\ d.report_cfg_to_rem_list = << >>
  /\ ~d.report_cfg_to_add_mod_list_present /\ d.report_cfg_to_add_mod_list = << >>
  /\ ~d.meas_id_to_rem_list_present /\ d.meas_id_to_rem_list = << >>
  /\ ~d.meas_id_to_add_mod_list_present /\ d.meas_id_to_add_mod_list = << >>

\* C25: the delta between two equal configurations is empty: no list is
\* flagged present and every list is empty
C25_EqualConfigurationsGiveEmptyDelta ==
  (result_meascfg.computed /\ src_var = target_var) => EmptyDelta(result_meascfg)

\* the delta of a configuration of two cells, a report and a meas-id to an
\* equal configuration was computed
C25_Witness ==
  /\ result_meascfg.computed
  /\ src_var = target_var
  /\ \E i \in DOMAIN src_var.meas_obj_list :
       Len(src_var.meas_obj_list[i].cells_to_add_mod_list) = 2
  /\ src_var.report_cfg_list # << >>
  /\ src_var.meas_id_list # << >>

\* the measurement objects of a configuration that measure an EARFCN
ObjsOf(v, earfcn) ==
  {i \in DOMAIN v.meas_obj_list : v.meas_obj_list[i].carrier_freq = earfcn}

\* the positions of a cell index among the cells of a measurement object
CellsAt(obj, idx) ==
  {j \in DOMAIN obj.cells_to_add_mod_list : obj.cells_to_add_mod_list[j].cell_idx = idx}

\* the cells of every measurement object are in ascending order of cell index
CellsSorted(v) ==
  \A i \in DOMAIN v.meas_obj_list :
    LET cells == v.meas_obj_list[i].cells_to_add_mod_list
    IN \A j, k \in DOMAIN cells : j < k => cells[j].cell_idx < cells[k].cell_idx

\* what add_cell_cfg(cell) has to leave of a configuration v in w
AddedCell(v, w, cell) ==
  LET idx == cell.eci % 256
      old == ObjsOf(v, cell.earfcn)
      new == ObjsOf(w, cell.earfcn)
      used == {v.meas_obj_list[i].meas_obj_id : i \in DOMAIN v.meas_obj_list}
  IN /\ Cardinality(new) = 1
     /\ CellsSorted(w)
     /\ \A i \in new :
          LET obj == w.meas_obj_list[i]
          IN /\ \E j \in CellsAt(obj, idx) :
                  /\ CellsAt(obj, idx) = {j}
                  /\ obj.cells_to_add_mod_list[j].pci = cell.pci
                  /\ obj.cells_to_add_mod_list[j].cell_individual_offset = cell.q_offset
             /\ old = {} =>
                  /\ obj.meas_obj_id \notin used
                  /\ \A n \in 1..(obj.meas_obj_id - 1) : n \in used
                  /\ Len(w.meas_obj_list) = Len(v.meas_obj_list) + 1
             /\ old # {} =>
                  /\ old = new
                  /\ Len(w.meas_obj_list) = Len(v.meas_obj_list)
                  /\ obj.meas_obj_id = v.meas_obj_list[i].meas_obj_id
                  /\ Len(obj.cells_to_add_mod_list) =
                       Len(v.meas_obj_list[i].cells_to_add_mod_list)
                       + (IF CellsAt(v.meas_obj_list[i], idx) = {} THEN 1 ELSE 0)

\* C26: after add_cell_cfg the cells of the EARFCN are in one measurement
\* object, in ascending order of cell index whatever the order they came in;
\* a new EARFCN has a new object with the lowest free identifier from 1; a
\* cell whose EARFCN and cell index are there already is overwritten in place
C26_AddCellCfgSortedLowestIdInPlace ==
  [][\A cell \in MEAS_CELLS :
       target_add_cell_cfg(cell) => AddedCell(target_var, target_var', cell)]_vars

\* two measurement objects, the first with the cells of index 1 and 2, the
\* cell of index 1 with the offset it was given last
C26_Witness ==
  /\ Len(target_var.meas_obj_list) = 2
  /\ target_var.meas_obj_list[2].meas_obj_id = 2
  /\ Len(target_var.meas_obj_list[1].cells_to_add_mod_list) = 2
  /\ target_var.meas_obj_list[1].cells_to_add_mod_list[1].cell_idx = 1
  /\ target_var.meas_obj_list[1].cells_to_add_mod_list[1].cell_individual_offset = 1

(***************************************************************************)
(* One user, its connection, its measurement reports and its handovers     *)
(***************************************************************************)
\* the PCIs measurement reports name: the two neighbours and an unknown cell
REPORT_PCIS == {2, 3, 4}

NextHo ==
  \/ \E r \in ONE_UE : add_user(r)
  \/ \E r \in ONE_UE : MayAlloc /\ write_pdu(r, "RB_ID_SRB0", ConReq)
  \/ \E r \in ONE_UE, p \in {Pdu("rrc_conn_setup_complete", 0), Pdu("security_mode_complete", 0),
                            Pdu("rrc_conn_recfg_complete", 0)} :
       SrbUp(r, 1) /\ write_pdu(r, "RB_ID_SRB1", p)
  \/ \E r \in ONE_UE, pci \in REPORT_PCIS :
       SrbUp(r, 1) /\ write_pdu(r, "RB_ID_SRB1", Pdu("meas_report", pci))
  \/ \E r \in ONE_UE : setup_ue_ctxt(r, [encryption_algorithms |-> AllBits,
                                        integrity_protection_algorithms |-> AllBits],
                                    <<[id |-> 5, qci |-> 9]>>)
  \/ \E r \in ONE_UE, is_success \in BOOLEAN : ho_preparation_complete(r, is_success)
  \/ tti_clock

SpecHo == Init /\ [][NextHo]_vars

\* the step is tti_clock handling a measurement report of the user for this PCI
HandlesMeasReport(r, pci) ==
  Processed(r, "RB_ID_SRB1") /\ last'.pdu = Pdu("meas_report", pci)

\* the calls of a step that start a handover or send a message to the user
HoCalls(o) ==
  {i \in DOMAIN o : o[i].kind \in {"s1ap_send_ho_required", "pdcp_write_sdu", "rlc_write_sdu"}}

\* C27: a measurement report whose PCI is the PCI of no neighbour cell is
\* dropped: no handover-required goes to the signaling layer, nothing is sent
\* to the user and the user's handover state stays as it was
C27_UnknownPciReportDropped ==
  [][\A r \in ONE_UE, pci \in REPORT_PCIS :
       (HandlesMeasReport(r, pci) /\ \A c \in NEIGHBOUR_CELLS : c.pci # pci)
         => /\ HoCalls(out') = {}
            /\ users'[r].ho_st = users[r].ho_st]_vars

\* tti_clock has handled the report of PCI 3 of a registered user that is in
\* no handover
C27_Witness ==
  /\ last.op = "tti_clock"
  /\ last.pdu = Pdu("meas_report", 3)
  /\ \E r \in ONE_UE : /\ last.rnti = r
                       /\ users[r].present
                       /\ users[r].state = "REGISTERED"
                       /\ users[r].ho_st = "idle_st"

\* C28: a measurement report handled while a handover of the user is in
\* progress starts no second handover: no handover-required goes to the
\* signaling layer, no handover command goes to the user and the handover in
\* progress stays the one it was
C28_OneHandoverPerUser ==
  [][\A r \in ONE_UE, pci \in REPORT_PCIS :
       (HandlesMeasReport(r, pci) /\ users[r].ho_st # "idle_st")
         => /\ HoCalls(out') = {}
            /\ users'[r].ho_st = users[r].ho_st
            /\ users'[r].ho_recfg = users[r].ho_recfg]_vars

\* tti_clock has handled a report of the neighbour of another station while
\* the preparation of a handover of the user was pending, and called no layer
C28_Witness ==
  /\ last.op = "tti_clock"
  /\ last.pdu = Pdu("meas_report", 4)
  /\ out = << >>
  /\ \E r \in ONE_UE : /\ last.rnti = r
                       /\ users[r].present
                       /\ users[r].ho_st = "s1_source_ho_st"

\* the step is ho_preparation_complete answering, with success (1) or failure
\* (0), the preparation of a handover of the user that is pending
AnswersHoPreparation(r, success) ==
  /\ last'.op = "ho_preparation_complete"
  /\ last'.rnti = r
  /\ last'.pdu.arg = success
  /\ users[r].present
  /\ users[r].ho_st = "s1_source_ho_st"

StartsIntraEnbHo(r, pci) ==
  /\ HandlesMeasReport(r, pci)
  /\ users[r].ho_st = "idle_st"
  /\ \E c \in NEIGHBOUR_CELLS : c.pci = pci /\ c.eci \div 256 = ENB_ID

\* the step is tti_clock handling the reconfiguration-complete of a user in
\* an intra-station handover
CompletesIntraEnbHo(r) ==
  /\ Processed(r, "RB_ID_SRB1")
  /\ last'.pdu = Pdu("rrc_conn_recfg_complete", 0)
  /\ users[r].ho_st = "intraenb_ho_st"

\* the SR and CQI indices the MAC scheduler holds are those of a handover command
SchedCfgAsSignalled(c, m) ==
  /\ m.present
  /\ c.sr_configured
  /\ c.I_sr = m.sr_cfg_idx
  /\ c.n_pucch_sr = m.sr_pucch_res_idx
  /\ c.pmi_idx = m.cqi_pmi_cfg_idx
  /\ c.n_pucch = m.cqi_pucch_res_idx

ASN1_RRC_MAX_PAGE_REC == 16
\* sib2().rr_cfg_common.pcch_cfg: the default paging cycle in frames, and nB as
\* a multiple of it (numerator, denominator)
pcch_cfg == [default_paging_cycle |-> 32, nb |-> <<1, 1>>]
\* sf_pattern[i_s % 4][(Ns - 1) % 4] of rrc::is_paging_opportunity
sf_pattern == <<<<9, 4, -1, 0>>, <<-1, 9, -1, 4>>, <<-1, -1, -1, 5>>, <<-1, -1, -1, 9>>>>

\* a step of the paging: nothing else of the stack changes
PagingStep(op, o) ==
  /\ last' = op
  /\ out' = o
  /\ UNCHANGED <<users, rx_pdu_queue, sr_sched, cqi_sched, pdcp_users, rlc_bearers, mac_ue,
                 sched_ue_cfg, s1ap_ctx, mme_connected, user_mutex, tti_p, sec_vars, cfg,
                 mac_vars, meas_vars, buf_vars>>

\* the keys of pending_paging in the order std::map iterates them
RECURSIVE KeysAscending(_)
KeysAscending(S) ==
  IF S = {} THEN << >>
  ELSE LET m == CHOOSE m \in S : \A k \in S : m <= k
       IN <<m>> \o KeysAscending(S \ {m})

\* the body of add_paging_id between its lock and its unlock
pending_paging_add(pending, ueid) == IF ueid \notin pending THEN pending \cup {ueid} ELSE pending

\* the loop of is_paging_opportunity over pending_paging: g holds n, the
\* records of the message and ue_to_remove
RECURSIVE paging_loop(_, _, _)
paging_loop(items, tti, g) ==
  IF items = << >> \/ g.n >= ASN1_RRC_MAX_PAGE_REC THEN g
  ELSE LET T == pcch_cfg.default_paging_cycle
           Nb == (T * pcch_cfg.nb[1]) \div pcch_cfg.nb[2]
           N == IF T < Nb THEN T ELSE Nb
           Ns == IF Nb \div T > 1 THEN Nb \div T ELSE 1
           sfn == tti \div 10
           ueid == Head(items) % 1024
           i_s == (ueid \div N) % Ns
           sf_idx == sf_pattern[(i_s % 4) + 1][((Ns - 1) % 4) + 1]
           g1 == IF (sfn % T) # (T \div N) * (ueid % N) THEN g
                 ELSE IF sf_idx < 0 THEN g
                 ELSE IF sf_idx = tti % 10
                 THEN [n |-> g.n + 1,
                       records |-> Append(g.records, Head(items)),
                       ue_to_remove |-> Append(g.ue_to_remove, ueid)]
                 ELSE g
       IN paging_loop(Tail(items), tti, g1)

\* is_paging_opportunity between its lock and its unlock: the records of the
\* message and what is left of pending_paging after the erasures
paging_assemble(pending, tti) ==
  LET g == paging_loop(KeysAscending(pending), tti,
                       [n |-> 0, records |-> << >>, ue_to_remove |-> << >>])
  IN [records |-> g.records,
      pending |-> pending \ {g.ue_to_remove[i] : i \in DOMAIN g.ue_to_remove}]

\* rrc::add_paging_id
add_paging_id(ueid) ==
  /\ paging_mutex = "free"
  /\ pending_paging' = pending_paging_add(pending_paging, ueid)
  /\ UNCHANGED <<byte_buf_paging, paging_mutex, pag>>
  /\ PagingStep(Op("add_paging_id", 0, "", Pdu("ueid", ueid)), << >>)

\* rrc::is_paging_opportunity: the return value, and the message if it is true
is_paging_opportunity(tti) ==
  /\ paging_mutex = "free"
  /\ LET a == paging_assemble(pending_paging, tti)
     IN IF pending_paging = {}
        THEN /\ UNCHANGED <<pending_paging, byte_buf_paging>>
             /\ PagingStep(Op("is_paging_opportunity", 0, "", Pdu("tti", tti)),
                           <<Ret("is_paging_opportunity", 0, [ret |-> FALSE, records |-> << >>])>>)
        ELSE /\ pending_paging' = a.pending
             /\ byte_buf_paging' = IF a.records # << >> THEN a.records ELSE byte_buf_paging
             /\ PagingStep(Op("is_paging_opportunity", 0, "", Pdu("tti", tti)),
                           <<Ret("is_paging_opportunity", 0,
                                 [ret |-> a.records # << >>, records |-> a.records])>>)
  /\ UNCHANGED <<paging_mutex, pag>>

\* rrc::read_pdu_pcch: the payload copied, if it fits into the buffer
read_pdu_pcch(buffer_size) ==
  /\ paging_mutex = "free"
  /\ UNCHANGED <<pending_paging, byte_buf_paging, paging_mutex, pag>>
  /\ PagingStep(Op("read_pdu_pcch", 0, "", Pdu("buffer_size", buffer_size)),
                <<Ret("read_pdu_pcch", 0,
                      IF Len(byte_buf_paging) <= buffer_size THEN byte_buf_paging ELSE << >>)>>)

(***************************************************************************)
(* The entry points step by step: what each does with and without its      *)
(* mutex, while the other threads run                                      *)
(***************************************************************************)
\* rrc::get_nof_users
get_nof_users ==
  Commit(Call(World, Ret("get_nof_users", 0, Cardinality({r \in RNTIS : users[r].present}))),
         Op("get_nof_users", 0, "", NullPdu))

\* add_paging_id takes paging_mutex ...
add_paging_id_lock(ueid) ==
  /\ pag.add_paging_id = 0
  /\ paging_mutex = "free"
  /\ paging_mutex' = "add_paging_id"
  /\ pag' = [pag EXCEPT !.add_paging_id = ueid]
  /\ UNCHANGED <<pending_paging, byte_buf_paging>>
  /\ PagingStep(Op("add_paging_id_lock", 0, "", Pdu("ueid", ueid)), << >>)

\* ... adds the id and gives the mutex back
add_paging_id_unlock ==
  /\ pag.add_paging_id # 0
  /\ paging_mutex = "add_paging_id"
  /\ pending_paging' = pending_paging_add(pending_paging, pag.add_paging_id)
  /\ paging_mutex' = "free"
  /\ pag' = [pag EXCEPT !.add_paging_id = 0]
  /\ UNCHANGED byte_buf_paging
  /\ PagingStep(Op("add_paging_id", 0, "", Pdu("ueid", pag.add_paging_id)), << >>)

\* is_paging_opportunity looks whether pending_paging is empty, and returns if so, ...
is_paging_opportunity_empty(tti) ==
  /\ pag.is_paging_opportunity = "none"
  /\ pag' = IF pending_paging = {} THEN pag
            ELSE [pag EXCEPT !.is_paging_opportunity = "not_empty", !.tti = tti]
  /\ UNCHANGED <<pending_paging, byte_buf_paging, paging_mutex>>
  /\ PagingStep(Op("is_paging_opportunity_empty", 0, "", Pdu("tti", tti)),
                IF pending_paging = {}
                THEN <<Ret("is_paging_opportunity", 0, [ret |-> FALSE, records |-> << >>])>>
                ELSE << >>)

\* ... takes paging_mutex, ...
is_paging_opportunity_lock ==
  /\ pag.is_paging_opportunity = "not_empty"
  /\ paging_mutex = "free"
  /\ paging_mutex' = "is_paging_opportunity"
  /\ pag' = [pag EXCEPT !.is_paging_opportunity = "locked"]
  /\ UNCHANGED <<pending_paging, byte_buf_paging>>
  /\ PagingStep(Op("is_paging_opportunity_lock", 0, "", Pdu("tti", pag.tti)), << >>)

\* ... assembles the records, erases their ids and gives the mutex back, and
\* returns if there is no record, ...
is_paging_opportunity_unlock ==
  /\ pag.is_paging_opportunity = "locked"
  /\ paging_mutex = "is_paging_opportunity"
  /\ LET a == paging_assemble(pending_paging, pag.tti)
     IN /\ pending_paging' = a.pending
        /\ pag' = IF a.records = << >>
                  THEN [pag EXCEPT !.is_paging_opportunity = "none", !.tti = 0]
                  ELSE [pag EXCEPT !.is_paging_opportunity = "unlocked", !.records = a.records]
        /\ PagingStep(Op("is_paging_opportunity_unlock", 0, "", Pdu("tti", pag.tti)),
                      IF a.records = << >>
                      THEN <<Ret("is_paging_opportunity", 0,
                                 [ret |-> FALSE, records |-> << >>])>>
                      ELSE << >>)
  /\ paging_mutex' = "free"
  /\ UNCHANGED byte_buf_paging

\* ... and packs the message into byte_buf_paging
is_paging_opportunity_pack ==
  /\ pag.is_paging_opportunity = "unlocked"
  /\ byte_buf_paging' = pag.records
  /\ pag' = [pag EXCEPT !.is_paging_opportunity = "none", !.tti = 0, !.records = << >>]
  /\ UNCHANGED <<pending_paging, paging_mutex>>
  /\ PagingStep(Op("is_paging_opportunity", 0, "", Pdu("tti", pag.tti)),
                <<Ret("is_paging_opportunity", 0, [ret |-> TRUE, records |-> pag.records])>>)

\* read_pdu_pcch takes paging_mutex ...
read_pdu_pcch_lock ==
  /\ ~pag.read_pdu_pcch
  /\ paging_mutex = "free"
  /\ paging_mutex' = "read_pdu_pcch"
  /\ pag' = [pag EXCEPT !.read_pdu_pcch = TRUE]
  /\ UNCHANGED <<pending_paging, byte_buf_paging>>
  /\ PagingStep(Op("read_pdu_pcch_lock", 0, "", NullPdu), << >>)

\* ... copies the message and gives the mutex back
read_pdu_pcch_unlock(buffer_size) ==
  /\ pag.read_pdu_pcch
  /\ paging_mutex = "read_pdu_pcch"
  /\ paging_mutex' = "free"
  /\ pag' = [pag EXCEPT !.read_pdu_pcch = FALSE]
  /\ UNCHANGED <<pending_paging, byte_buf_paging>>
  /\ PagingStep(Op("read_pdu_pcch", 0, "", Pdu("buffer_size", buffer_size)),
                <<Ret("read_pdu_pcch", 0,
                      IF Len(byte_buf_paging) <= buffer_size THEN byte_buf_paging ELSE << >>)>>)

\* the ids paged: two of one paging occasion, an id above 1023 among them, and
\* one of another occasion
PAGING_UEIDS == {1, 2, 1025}
\* subframe 9 of the frames 1 and 2, and subframe 0 of frame 1
PAGING_TTIS == {19, 29, 10}

\* the user table and the paging state under the threads of the other layers
NextLock ==
  \/ \E r \in ONE_UE : user_mutex = "free" /\ add_user(r)
  \/ \E r \in ONE_UE : MayAlloc /\ enqueue("write_pdu", r, "RB_ID_SRB0", ConReq)
  \/ tti_clock_lock
  \/ tti_clock_pop
  \/ tti_clock_handle
  \/ \E r \in ONE_UE, s \in BOOLEAN : ho_preparation_complete(r, s)
  \/ get_nof_users
  \/ \E u \in {1, 1025} : add_paging_id_lock(u)
  \/ add_paging_id_unlock
  \/ \E t \in {19} : is_paging_opportunity_empty(t)
  \/ is_paging_opportunity_lock
  \/ is_paging_opportunity_unlock
  \/ is_paging_opportunity_pack
  \/ read_pdu_pcch_lock
  \/ \E n \in {2} : read_pdu_pcch_unlock(n)

SpecLock == Init /\ [][NextLock]_vars

\* the entry point a step belongs to
EntryPointOf(op) ==
  CASE op \in {"tti_clock_lock", "tti_clock_pop", "tti_clock"} -> "tti_clock"
    [] op \in {"add_paging_id_lock", "add_paging_id"} -> "add_paging_id"
    [] op \in {"is_paging_opportunity_empty", "is_paging_opportunity_lock",
               "is_paging_opportunity_unlock", "is_paging_opportunity"}
         -> "is_paging_opportunity"
    [] op \in {"read_pdu_pcch_lock", "read_pdu_pcch"} -> "read_pdu_pcch"
    [] OTHER -> op

\* the step reads or writes the user table
AccessesUsers ==
  \/ users' # users
  \/ last'.op \in {"add_user", "tti_clock", "ho_preparation_complete", "get_nof_users"}

\* the step reads or writes pending_paging or byte_buf_paging
AccessesPaging ==
  \/ pending_paging' # pending_paging
  \/ byte_buf_paging' # byte_buf_paging
  \/ last'.op \in {"add_paging_id", "is_paging_opportunity_empty",
                   "is_paging_opportunity_unlock", "is_paging_opportunity", "read_pdu_pcch"}

\* the step is taken by the entry point holding the mutex (add_user is one step
\* from its lock to its unlock, taken when the mutex is free)
Holds(mutex, op) ==
  \/ mutex = EntryPointOf(op)
  \/ mutex = "free" /\ op = "add_user"

\* C31: every step of a public entry point that reads or writes the user table
\* is taken while that entry point holds user_mutex, and every step that reads
\* or writes the pending paging ids or the paging buffer while it holds
\* paging_mutex, so that two threads never access one of them concurrently.
C31_TablesAccessedUnderTheirMutex ==
  [][/\ AccessesUsers => Holds(user_mutex, last'.op)
     /\ AccessesPaging => Holds(paging_mutex, last'.op)]_vars

(***************************************************************************)
(* Timing advance                                                          *)
(***************************************************************************)
\* timing advances within one command, at its two ends, and beyond them
TA_INPUTS == {-70, -63, -62, -32, -31, -30, -1, 0, 1, 31, 32, 33, 63, 64, 65, 70}

\* set_ta on the MAC ue of a user, and the PDUs that take the commands
NextTa ==
  \/ \E k \in ONE_UE, ta \in TA_INPUTS : set_ta(k, ta)
  \/ \E k \in ONE_UE, list \in {<<DlElem(TA_CMD, 0)>>, <<DlElem(TA_CMD, 0), DlElem(TA_CMD, 0)>>} :
       generate_pdu(k, list, 40, 0, TRUE)

SpecTa == InitMac /\ [][NextTa]_vars

RECURSIVE SumOffsets(_)
SumOffsets(cmds) == IF cmds = << >> THEN 0 ELSE (Head(cmds) - 31) + SumOffsets(Tail(cmds))

\* the step is set_ta(ta) on the MAC ue stored under k
SetsTa(k, ta) == last'.op = "set_ta" /\ last'.rnti = k /\ last'.pdu.arg = ta

\* what the step added at the end of the pending commands of the MAC ue under k
AddedTaCmds(k) ==
  SubSeq(pending_ta_commands'[k], Len(pending_ta_commands[k]) + 1, Len(pending_ta_commands'[k]))

C33_NoMmeOnlyReject ==
  [][\A r \in UE_RNTIS :
       (ConReqOfIdle(r) /\ ~mme_connected)
       => /\ out' = <<Ev("rlc_write_sdu", r, 0, "rrc_conn_reject", 0, 0)>>
          /\ ~SetupSent(r)
          /\ sr_sched' = sr_sched
          /\ cqi_sched' = cqi_sched
          /\ sched_ue_cfg' = sched_ue_cfg
          /\ rlc_bearers' = rlc_bearers
          /\ pdcp_users' = pdcp_users
          /\ users'[r].state = "IDLE"]_vars

(***************************************************************************)
(* Admissions and releases of two users                                    *)
(***************************************************************************)
\* a command of the user waits in rx_pdu_queue
HasQueued(r, lcid) ==
  \E i \in DOMAIN rx_pdu_queue : rx_pdu_queue[i].rnti = r /\ rx_pdu_queue[i].lcid = lcid

\* users that are admitted, send one connection request each while idle, are
\* released by S1AP and admitted again
NextAdmit ==
  \/ \E r \in UE_RNTIS : add_user(r)
  \/ \E r \in UE_RNTIS :
       /\ users[r].present
       /\ users[r].state = "IDLE"
       /\ ~HasQueued(r, "RB_ID_SRB0")
       /\ write_pdu(r, "RB_ID_SRB0", ConReq)
  \/ \E r \in UE_RNTIS : ~HasQueued(r, "LCID_REL_USER") /\ release_complete(r)
  \/ tti_clock

SpecAdmit == Init /\ [][NextAdmit]_vars

\* C34: no two users in the table hold the same SR resource (I_sr, N_pucch_sr),
\* and no two the same CQI resource (pmi index, n_pucch), whatever users have
\* been admitted and removed before.
C34_NoTwoUsersShareAPucchResource ==
  \A a, b \in UE_RNTIS :
    (a # b /\ users[a].present /\ users[b].present)
    => /\ (users[a].sr_allocated /\ users[b].sr_allocated)
          => <<users[a].sr_I, users[a].sr_N_pucch>> # <<users[b].sr_I, users[b].sr_N_pucch>>
       /\ (users[a].cqi_allocated /\ users[b].cqi_allocated)
          => <<users[a].cqi_idx, users[a].cqi_pucch>> # <<users[b].cqi_idx, users[b].cqi_pucch>>

\* the same users, who may also repeat their connection request
NextRelease ==
  \/ \E r \in UE_RNTIS : add_user(r)
  \/ \E r \in UE_RNTIS : ~HasQueued(r, "RB_ID_SRB0") /\ MayAlloc /\ write_pdu(r, "RB_ID_SRB0", ConReq)
  \/ \E r \in UE_RNTIS : ~HasQueued(r, "LCID_REL_USER") /\ release_complete(r)
  \/ tti_clock

SpecRelease == Init /\ [][NextRelease]_vars

\* the step tti_clock takes when it is called with a command waiting: the steps
\* of NextRelease that leave this in last are those of tti_clock
tti_clock_called ==
  /\ rx_pdu_queue # << >>
  /\ last' = Op("tti_clock", Head(rx_pdu_queue).rnti, Head(rx_pdu_queue).lcid,
                Head(rx_pdu_queue).pdu)

\* the same, with tti_clock called again and again
SpecReleaseFair == SpecRelease /\ WF_last(tti_clock_called)

\* release_complete has just been called for the user r, who is in the table
ReleaseCompleteCalled(r) ==
  /\ last = Op("release_complete", r, "", NullPdu)
  /\ users[r].present

\* tti_clock has just removed the user r: MAC and GTPU were told, RLC and PDCP
\* hold nothing of it, and the table has no entry for it
UserRemoved(r) ==
  /\ last = Op("tti_clock", r, "LCID_REM_USER", NullPdu)
  /\ out = <<Ev("mac_ue_rem", r, 0, "", 0, 0), Ev("gtpu_rem_user", r, 0, "", 0, 0)>>
  /\ mac_ue[r] = 0
  /\ rlc_bearers[r] = {}
  /\ pdcp_users[r] = NoUe
  /\ ~users[r].present

\* the step removes the user r from the table
RemovesUser(r) == users[r].present /\ ~users'[r].present

\* the grid with one user less in the slot the handle points at
OneLess(grid, prb_idx, sf_idx) == [grid EXCEPT ![<<prb_idx, sf_idx>>] = @ - 1]

RlfTriggers(r) ==
  \/ \E i \in DOMAIN out' : out'[i].kind = "s1ap_user_release" /\ out'[i].rnti = r
  \/ RemovalOf(r) \in Queued

\* C36: of the radio-link failures processed for a user, the first one and no
\* other asks S1AP for the release or queues the removal; a later one adds one
\* to the failure counter of the user and does nothing else, and the counter of
\* a user never goes back, so that there is one first failure per user.
C36_RlfTriggersOnFirstOnly ==
  [][\A r \in UE_RNTIS :
       /\ Processed(r, "LCID_RLF_USER")
          => /\ RlfTriggers(r) <=> users[r].rlf_cnt = 0
             /\ users[r].rlf_cnt > 0
                => /\ users' = [users EXCEPT ![r].rlf_cnt = @ + 1]
                   /\ out' = << >>
                   /\ Queued = {}
                   /\ <<sr_sched, cqi_sched, pdcp_users, rlc_bearers, mac_ue, s1ap_ctx>>' =
                        <<sr_sched, cqi_sched, pdcp_users, rlc_bearers, mac_ue, s1ap_ctx>>
       /\ (users[r].present /\ users'[r].present)
          => users'[r].rlf_cnt >= users[r].rlf_cnt]_vars

\* the second failure of a user has been processed after the first one had
\* asked S1AP for the release: it is counted, no call is made and nothing waits
\* in the queue
C36_Witness ==
  \E r \in UE_RNTIS :
    /\ last = Op("tti_clock", r, "LCID_RLF_USER", NullPdu)
    /\ users[r].present
    /\ users[r].rlf_cnt = 2
    /\ r \in s1ap_ctx
    /\ out = << >>
    /\ rx_pdu_queue = << >>

(***************************************************************************)
(* Paging identities and the messages they are put into                    *)
(***************************************************************************)
\* S1AP adds identities, the MAC asks at every TTI whether a paging message
\* is due and reads it
NextPaging ==
  \/ \E u \in PAGING_UEIDS : add_paging_id(u)
  \/ \E t \in PAGING_TTIS : is_paging_opportunity(t)
  \/ \E n \in 1..2 : read_pdu_pcch(n)

SpecPaging == Init /\ [][NextPaging]_vars

\* is_paging_opportunity has returned at this step
AssemblesPaging == last'.op = "is_paging_opportunity" /\ out' # << >>

\* the identities of the records of the message assembled at this step
PagedNow == {out'[1].arg.records[i] : i \in DOMAIN out'[1].arg.records}

\* C37: an identity that is_paging_opportunity puts into a paging message is
\* removed from the pending set at that call, so that no later message holds
\* it again, and an identity it does not put into the message stays pending;
\* this for every UE id, the ids of 1024 and above included
C37_PagedIdentityLeavesPending ==
  [][AssemblesPaging
       => /\ \A u \in PagedNow : u \notin pending_paging'
          /\ \A u \in pending_paging \ PagedNow : u \in pending_paging']_vars

(***************************************************************************)
(* The PDCP user table under calls for any RNTI                            *)
(***************************************************************************)
\* pdcp::add_user
pdcp_add_user(w, rnti) == [w EXCEPT !.pdcp[rnti] = IF @.present THEN @ ELSE NewPdcp]

\* pdcp::rem_user
pdcp_rem_user(w, rnti) == IF w.pdcp[rnti].present THEN [w EXCEPT !.pdcp[rnti] = NoUe] ELSE w

\* pdcp::reestablish: handed to the entity of the user
pdcp_reestablish(w, rnti) ==
  IF ~w.pdcp[rnti].present THEN w
  ELSE Call(w, Ev("pdcp_entity_reestablish", rnti, 0, "", 0, 0))

\* pdcp::write_sdu: handed to the entity of the user
pdcp_write_sdu(w, rnti, lcid) ==
  IF ~w.pdcp[rnti].present THEN w
  ELSE IF rnti # SRSLTE_MRNTI
       THEN Call(w, Ev("pdcp_entity_write_sdu", rnti, lcid, "", 0, 0))
       ELSE Call(w, Ev("pdcp_entity_write_sdu_mch", rnti, lcid, "", 0, 0))

\* the entry points that take an RNTI and expect pdcp::users to hold it
PDCP_USER_ENTRY_POINTS ==
  {"rem_user", "add_bearer", "config_security", "enable_integrity", "enable_encryption",
   "reestablish", "write_sdu"}

\* the world after the entry point name of srsenb::pdcp has run
pdcp_entry_point(w, name, rnti, lcid) ==
  CASE name = "add_user" -> pdcp_add_user(w, rnti)
    [] name = "rem_user" -> pdcp_rem_user(w, rnti)
    [] name = "add_bearer" -> pdcp_add_bearer(w, rnti, lcid)
    [] name = "config_security" ->
         pdcp_config_security(w, rnti, lcid, CIPHERING_ALGORITHM_ID_128_EEA1,
                              INTEGRITY_ALGORITHM_ID_128_EIA1)
    [] name = "enable_integrity" -> pdcp_enable_integrity(w, rnti, lcid)
    [] name = "enable_encryption" -> pdcp_enable_encryption(w, rnti, lcid)
    [] name = "reestablish" -> pdcp_reestablish(w, rnti)
    [] name = "write_sdu" -> pdcp_write_sdu(w, rnti, lcid)

\* the entry point calls a member function through users[rnti].pdcp while that
\* pointer is null: the entry that operator[] has just inserted, or one an
\* earlier such call left in the table
CallsThroughNull(name, rnti) ==
  /\ name \in PDCP_USER_ENTRY_POINTS
  /\ IF pdcp_users[rnti].present THEN pdcp_users[rnti].pdcp = "NULL"
     ELSE name \in {"enable_integrity", "enable_encryption"}

\* the process has been stopped by the signal of a call through a null pointer
Faulted == last.pdu.type = "SIGSEGV"

\* a call of an entry point of srsenb::pdcp by RRC, GTPU or RLC. A call through
\* a null pointer is undefined: the process is stopped by the signal, or it
\* goes on and the call has done nothing
pdcp_call(name, rnti, lcid) ==
  /\ ~Faulted
  /\ LET w == pdcp_entry_point(World, name, rnti, lcid)
     IN IF CallsThroughNull(name, rnti)
        THEN \E fault \in BOOLEAN :
               Commit(w, Op(name, rnti, "", Pdu(IF fault THEN "SIGSEGV" ELSE "lcid", lcid)))
        ELSE Commit(w, Op(name, rnti, "", Pdu("lcid", lcid)))

NextPdcp ==
  \/ \E r \in UE_RNTIS : pdcp_call("add_user", r, 0)
  \/ \E r \in UE_RNTIS : pdcp_call("rem_user", r, 0)
  \/ \E r \in UE_RNTIS : pdcp_call("add_bearer", r, 1)
  \/ \E r \in UE_RNTIS : pdcp_call("config_security", r, 1)
  \/ \E r \in UE_RNTIS : pdcp_call("enable_integrity", r, 1)
  \/ \E r \in UE_RNTIS : pdcp_call("enable_encryption", r, 1)
  \/ \E r \in UE_RNTIS : pdcp_call("reestablish", r, 0)
  \/ \E r \in UE_RNTIS : pdcp_call("write_sdu", r, 1)

SpecPdcp == Init /\ [][NextPdcp]_vars

\* the entry point name is called at this step for an RNTI pdcp::users does
\* not hold: one never added, or one removed
CalledForUnknownRnti(name, r) ==
  /\ last'.op = name
  /\ last'.rnti = r
  /\ ~pdcp_users[r].present

\* C38: every per-user entry point of PDCP called with an RNTI that was never
\* added or was already removed leaves the PDCP user table as it was;
\* enable_integrity and enable_encryption as add_bearer, config_security,
\* write_sdu and reestablish do
C38_UnknownRntiLeavesPdcpUsers ==
  [][\A r \in UE_RNTIS, name \in PDCP_USER_ENTRY_POINTS :
       CalledForUnknownRnti(name, r) => pdcp_users' = pdcp_users]_vars

(***************************************************************************)
(* The buffers of received PDUs                                            *)
(***************************************************************************)
\* a step of the buffer bookkeeping of a MAC ue: nothing else changes
BufferStep(op, o) ==
  /\ last' = op
  /\ out' = o
  /\ UNCHANGED <<users, rx_pdu_queue, sr_sched, cqi_sched, pdcp_users, rlc_bearers, mac_ue,
                 sched_ue_cfg, s1ap_ctx, mme_connected, user_mutex, tti_p, sec_vars, cfg,
                 mac_vars, meas_vars, paging_vars>>

\* a pointer as the caller holds it: the buffer, and the ue and tti it asked for
Held(k, tti, ptr) == [rnti |-> k, tti |-> tti, ptr |-> ptr]

\* what pdus.request can return: a buffer that is in the pool, or nullptr (0)
\* when the pool has none
PdusRequest(k) ==
  IF \E b \in BUFFERS : pdu_pool[k][b] = "free"
  THEN {b \in BUFFERS : pdu_pool[k][b] = "free"}
  ELSE {0}

\* ue::request_buffer on the MAC ue stored under key k
request_buffer(k, tti, len) ==
  /\ mac_ue[k] # 0
  /\ \E pdu \in IF len > 0 THEN PdusRequest(k) ELSE {0} :
       LET old == rx_used_buffers[k][tti]
           requested == [pdu_pool[k] EXCEPT ![pdu] = "used"]
       IN IF pdu # 0
          THEN /\ pdu_pool' = [pdu_pool EXCEPT
                                 ![k] = IF old # 0 THEN [requested EXCEPT ![old] = "free"]
                                        ELSE requested]
               /\ rx_used_buffers' = [rx_used_buffers EXCEPT ![k][tti] = pdu]
               /\ phy_held' = phy_held \cup {Held(k, tti, pdu)}
               /\ BufferStep(Op("request_buffer", k, "", Pdu("tti", tti)),
                             (IF old # 0 THEN <<Ev("pdus_deallocate", k, 0, "", 0, old)>>
                              ELSE << >>) \o <<Ret("request_buffer", k, pdu)>>)
          ELSE /\ UNCHANGED buf_vars
               /\ BufferStep(Op("request_buffer", k, "", Pdu("tti", tti)),
                             <<Ret("request_buffer", k, 0)>>)

\* ue::deallocate_pdu, called by the holder of pdu_ptr when the PDU was not
\* decoded
deallocate_pdu(k, tti, pdu_ptr) ==
  /\ mac_ue[k] # 0
  /\ Held(k, tti, pdu_ptr) \in phy_held
  /\ rx_used_buffers' = [rx_used_buffers EXCEPT
                           ![k][tti] = IF @ = pdu_ptr THEN 0 ELSE @]
  /\ pdu_pool' = [pdu_pool EXCEPT ![k][pdu_ptr] = "free"]
  /\ phy_held' = phy_held \ {Held(k, tti, pdu_ptr)}
  /\ BufferStep(Op("deallocate_pdu", k, "", Pdu("tti", tti)),
                <<Ev("pdus_deallocate", k, 0, "", 0, pdu_ptr)>>)

\* the buffer bookkeeping of ue::push_pdu, called by the holder of pdu_ptr when
\* the PDU was decoded (push_pdu above is what it does with the PDU's content)
push_pdu_buffer(k, tti, pdu_ptr, len) ==
  /\ mac_ue[k] # 0
  /\ Held(k, tti, pdu_ptr) \in phy_held
  /\ phy_held' = phy_held \ {Held(k, tti, pdu_ptr)}
  /\ IF len > 0
     THEN /\ rx_used_buffers' = [rx_used_buffers EXCEPT
                                   ![k][tti] = IF @ = pdu_ptr THEN 0 ELSE @]
          /\ pdu_pool' = [pdu_pool EXCEPT ![k][pdu_ptr] = "pushed"]
          /\ BufferStep(Op("push_pdu", k, "", Pdu("tti", tti)),
                        <<Ev("pdus_push", k, 0, "", 0, pdu_ptr)>>)
     ELSE /\ UNCHANGED <<rx_used_buffers, pdu_pool>>
          /\ BufferStep(Op("push_pdu", k, "", Pdu("tti", tti)), << >>)

\* the deallocation of ue::process_pdu: a pushed buffer goes back to the pool
\* once its PDU has been parsed
process_pdu_deallocate(k, pdu) ==
  /\ mac_ue[k] # 0
  /\ pdu_pool[k][pdu] = "pushed"
  /\ pdu_pool' = [pdu_pool EXCEPT ![k][pdu] = "free"]
  /\ UNCHANGED <<rx_used_buffers, phy_held>>
  /\ BufferStep(Op("process_pdu", k, "", NullPdu),
                <<Ev("pdus_deallocate", k, 0, "", 0, pdu)>>)

\* the PHY asks for a buffer for a grant of a tti slot and gives each pointer it
\* holds back once, pushed or deallocated, in any order
NextBuf ==
  \/ \E k \in ONE_UE, tti \in TTI_SLOTS, len \in {0, 5} : request_buffer(k, tti, len)
  \/ \E k \in ONE_UE, tti \in TTI_SLOTS, b \in BUFFERS : deallocate_pdu(k, tti, b)
  \/ \E k \in ONE_UE, tti \in TTI_SLOTS, b \in BUFFERS, len \in {0, 5} :
       push_pdu_buffer(k, tti, b, len)
  \/ \E k \in ONE_UE, b \in BUFFERS : process_pdu_deallocate(k, b)

SpecBuf == InitMac /\ [][NextBuf]_vars

\* the buffers given to pdus.deallocate or pdus.push at this step
GivenBack(k) ==
  {out'[i].arg : i \in {j \in DOMAIN out' : /\ out'[j].kind \in {"pdus_deallocate", "pdus_push"}
                                            /\ out'[j].rnti = k}}

\* C39: a buffer request_buffer handed out is given back to the pool or pushed
\* for processing once: whatever the order of request_buffer, push_pdu and
\* deallocate_pdu on a tti slot, a buffer deallocated or pushed is one that was
\* handed out and has not been deallocated or pushed since
C39_BufferGivenBackOnce ==
  [][\A k \in ONE_UE : \A b \in GivenBack(k) :
       \/ pdu_pool[k][b] = "used"
       \/ pdu_pool[k][b] = "pushed" /\ last'.op = "process_pdu"]_vars

(***************************************************************************)
(* The softbuffer sets of a MAC ue                                         *)
(***************************************************************************)
\* C40: a MAC ue never holds more per-carrier softbuffer sets than there are
\* carriers, however many SCell-activation control elements are emitted for it
C40_SoftbufferSetsWithinMaxCarriers ==
  \A k \in RNTIS : softbuffer_tx[k] <= SRSLTE_MAX_CARRIERS

====
